---- MODULE Spec2Model ----
(***************************************************************************)
(* State-machine model of the cargo-hitching backend.                      *)
(*                                                                         *)
(* Trip component: the HTTP handlers of routes/trips.py over the           *)
(* relational Trip table of models.py, behind the bearer-token decorators  *)
(* of auth_guard.py.                                                       *)
(*                                                                         *)
(* Data representation                                                     *)
(*   - a text value is a sequence of one-character strings, so that        *)
(*     lower-casing and substring matching are computed, not assumed;      *)
(*   - a date token (the JSON "date" value after str()) is a sequence of   *)
(*     character codes: 0..9 for the decimal digits, NL for a line feed,   *)
(*     OtherChar for any other character;                                  *)
(*   - a departure-time token is the text left and right of its colon,     *)
(*     each a sequence of digits;                                          *)
(*   - rate and space are integers (rates are whole currency units).       *)
(* The free-text columns description, currency and contact_info take no    *)
(* part in any checked property and are left out of the row.               *)
(*                                                                         *)
(* The user a decorator passes to a handler is read through its id         *)
(* (current_user.id); an account's id and its email are the same name.     *)
(***************************************************************************)
EXTENDS Integers, Sequences, FiniteSets, TLC

VARIABLES
    trips,      \* the trips table: trip id -> row (models.Trip)
    next_id,    \* ids handed out so far (uuid4 primary keys are fresh)
    today,      \* the server's current day (date.today())
    nops,       \* number of committed writes so far (bounds the run)
    resp,       \* the response of the last request handled
    messages,   \* db.messages: the message documents, in insertion order
    msg_resp,   \* the response of the last messaging request handled
    users,      \* db.users as routes/auth.py fills it, in insertion order
    minted,     \* the tokens the server has signed and handed out
    clock,      \* the last reading of datetime.utcnow(), in milliseconds
    auth_resp,  \* the response of the last authentication request handled
    pending,    \* register requests between their existence check and insert
    sessions,   \* update requests between loading the trip and committing
    fetched     \* conversation requests between their find and update_many

trip_vars == <<trips, next_id, today, nops, resp>>

msg_vars == <<messages, msg_resp>>

auth_vars == <<users, minted, clock, auth_resp>>

\* requests in flight, for the specifications that interleave the steps of two
\* requests; the other specifications run every handler as one step
race_vars == <<pending, sessions, fetched>>

vars ==
    <<trips, next_id, today, nops, resp, messages, msg_resp, users, minted, clock,
      auth_resp, pending, sessions, fetched>>

\* ------------------------------------------------------------------ bounds
MaxTrips == 2
MaxOps == 2
MaxMessages == 2
MaxUsers == 2
MaxClock == 1
MaxPending == 2

\* ------------------------------------------------------------- characters
NL == 0 - 2
OtherChar == 0 - 1

IsDigit(c) == c \in 0..9

LowerChar(c) ==
    CASE c = "A" -> "a"
      [] c = "B" -> "b"
      [] c = "C" -> "c"
      [] c = "D" -> "d"
      [] c = "E" -> "e"
      [] c = "F" -> "f"
      [] c = "G" -> "g"
      [] c = "H" -> "h"
      [] c = "I" -> "i"
      [] c = "J" -> "j"
      [] c = "K" -> "k"
      [] c = "L" -> "l"
      [] c = "M" -> "m"
      [] c = "N" -> "n"
      [] c = "O" -> "o"
      [] c = "P" -> "p"
      [] c = "Q" -> "q"
      [] c = "R" -> "r"
      [] c = "S" -> "s"
      [] c = "T" -> "t"
      [] c = "U" -> "u"
      [] c = "V" -> "v"
      [] c = "W" -> "w"
      [] c = "X" -> "x"
      [] c = "Y" -> "y"
      [] c = "Z" -> "z"
      [] OTHER -> c

\* str.lower()
Lower(s) == [i \in 1..Len(s) |-> LowerChar(s[i])]

\* Python slice s[a:b] with 0-based a, b clipped to the string
Slice(s, a, b) ==
    LET hi == IF b > Len(s) THEN Len(s) ELSE b
    IN  IF a >= hi THEN <<>> ELSE SubSeq(s, a + 1, hi)

\* needle is a contiguous part of hay
Contains(hay, needle) ==
    \E i \in 0..Len(hay) : Slice(hay, i, i + Len(needle)) = needle

\* SQL  column ILIKE '%needle%'
ILike(column, needle) == Contains(Lower(column), Lower(needle))

RECURSIVE DigitsValue(_)
DigitsValue(s) ==
    IF s = <<>> THEN 0 ELSE 10 * DigitsValue(SubSeq(s, 1, Len(s) - 1)) + s[Len(s)]

\* int(text): the value, or ValueError (-1) for an empty or non-numeric text
ParseInt(s) ==
    IF s = <<>> \/ \E i \in 1..Len(s) : ~IsDigit(s[i]) THEN 0 - 1 ELSE DigitsValue(s)

\* ------------------------------------------------------------------ dates
IsLeap(y) == (y % 4 = 0 /\ y % 100 # 0) \/ y % 400 = 0

DaysInMonth(y, m) ==
    IF m = 2 THEN (IF IsLeap(y) THEN 29 ELSE 28)
    ELSE IF m \in {4, 6, 9, 11} THEN 30 ELSE 31

NoDate == [year |-> 0, month |-> 0, day |-> 0]

\* datetime.date(year, month, day) raises ValueError outside the calendar
DateOk(y, m, d) ==
    /\ y \in 1..9999
    /\ m \in 1..12
    /\ d >= 1 /\ d <= DaysInMonth(y, m)

DateBefore(a, b) ==
    \/ a.year < b.year
    \/ a.year = b.year /\ a.month < b.month
    \/ a.year = b.year /\ a.month = b.month /\ a.day < b.day

\* re.match(r'^\d{8}$', s): eight digits; "$" also matches just before one
\* trailing line feed
DatePatternMatches(s) ==
    /\ Len(s) \in {8, 9}
    /\ \A i \in 1..8 : IsDigit(s[i])
    /\ Len(s) = 9 => s[9] = NL

\* parse_date_from_ddmmyyyy: the date, or None (NoDate) on ValueError
parse_date_from_ddmmyyyy(s) ==
    LET day == ParseInt(Slice(s, 0, 2))
        month == ParseInt(Slice(s, 2, 4))
        year == ParseInt(Slice(s, 4, 8))
    IN  IF day < 0 \/ month < 0 \/ year < 0 \/ ~DateOk(year, month, day)
        THEN NoDate
        ELSE [year |-> year, month |-> month, day |-> day]

\* ------------------------------------------------------- departure times
\* A departure-time token "H:M": the digit texts left and right of the colon.
EmptyTime == [h |-> <<>>, m |-> <<>>]

NoTime == [hour |-> 0 - 1, minute |-> 0 - 1]

\* re.match(r'^([01]?[0-9]|2[0-3]):[0-5][0-9]$', t)
TimePatternMatches(t) ==
    /\ \A i \in 1..Len(t.h) : IsDigit(t.h[i])
    /\ \A i \in 1..Len(t.m) : IsDigit(t.m[i])
    /\ \/ Len(t.h) = 1
       \/ Len(t.h) = 2 /\ t.h[1] \in {0, 1}
       \/ Len(t.h) = 2 /\ t.h[1] = 2 /\ t.h[2] \in 0..3
    /\ Len(t.m) = 2 /\ t.m[1] \in 0..5

\* datetime.strptime(t, '%H:%M').time(): the time, or ValueError (NoTime)
StrpTime(t) ==
    LET hour == ParseInt(t.h)
        minute == ParseInt(t.m)
    IN  IF /\ Len(t.h) \in {1, 2} /\ Len(t.m) \in {1, 2}
           /\ hour \in 0..23 /\ minute \in 0..59
        THEN [hour |-> hour, minute |-> minute]
        ELSE NoTime

\* ------------------------------------------------------- users and tokens
\* The accounts the trip handlers run against: u1 and u2 are verified, u3 has
\* not verified its email. An account's id doubles as its email.
NoUser == [id |-> "", is_verified |-> FALSE]

Accounts ==
    { [id |-> "u1", is_verified |-> TRUE],
      [id |-> "u2", is_verified |-> TRUE],
      [id |-> "u3", is_verified |-> FALSE] }

\* UserModel.find_by_email: the account, or None (NoUser)
find_by_email(email) ==
    IF \E u \in Accounts : u.id = email
    THEN CHOOSE u \in Accounts : u.id = email
    ELSE NoUser

\* A bearer token as the guard sees it: hdr - an Authorization header of the
\* form "Bearer <token>" is present; sig - jwt.decode accepts signature and
\* expiry; type and email - the payload's claims.
NoToken == [hdr |-> FALSE, sig |-> FALSE, type |-> "", email |-> ""]

Tokens ==
    { NoToken,
      [hdr |-> TRUE, sig |-> FALSE, type |-> "access", email |-> "u1"] }
    \cup [hdr : {TRUE}, sig : {TRUE}, type : {"access"},
          email : {"u1", "u2", "u3", "ghost"}]
    \cup [hdr : {TRUE}, sig : {TRUE}, type : {"remember", "verification"},
          email : {"u1"}]

\* decode_jwt_token(extract_token_from_header()) is not None
Decodes(token) == token.hdr /\ token.sig

\* the type check of token_required and optional_token
TypeAccepted(token) == token.type = "access"

\* The checks of token_required on a token and on the account (found) its
\* email resolves to: the 401 it answers with, or the user it passes on
token_required_on(token, found) ==
    IF ~token.hdr THEN [ok |-> FALSE, user |-> NoUser, error |-> "Token is missing"]
    ELSE IF ~Decodes(token)
    THEN [ok |-> FALSE, user |-> NoUser, error |-> "Invalid or expired token"]
    ELSE IF ~TypeAccepted(token)
    THEN [ok |-> FALSE, user |-> NoUser, error |-> "Invalid token type"]
    ELSE IF found = NoUser
    THEN [ok |-> FALSE, user |-> NoUser, error |-> "User not found"]
    ELSE IF ~found.is_verified
    THEN [ok |-> FALSE, user |-> NoUser, error |-> "Email not verified"]
    ELSE [ok |-> TRUE, user |-> found, error |-> ""]

\* token_required over the accounts of the trip and messaging components
token_required(token) == token_required_on(token, find_by_email(token.email))

\* The checks of optional_token: the user passed on, None (NoUser) without a
\* usable token
optional_token_on(token, found) ==
    IF token.hdr /\ Decodes(token) /\ TypeAccepted(token) THEN found ELSE NoUser

\* optional_token over the accounts of the trip and messaging components
optional_token(token) == optional_token_on(token, find_by_email(token.email))

\* ---------------------------------------------------------- request data
\* A JSON body or a query string is a function from the keys it holds to
\* their values; "field in data" is membership in its domain.
Has(data, field) == field \in DOMAIN data

EmptyData == [f \in {} |-> 0]

\* Python truthiness of a field's value: 0 for the numeric fields, the empty
\* text for the others
Falsy(field, v) ==
    IF field \in {"rate_per_kg", "available_cargo_space", "max_rate", "min_space"}
    THEN v = 0
    ELSE IF field = "departure_time" THEN v = EmptyTime
    ELSE v = <<>>

\* field in data and data[field]
Truthy(data, field) == Has(data, field) /\ ~Falsy(field, data[field])

\* -------------------------------------------------------------- validation
required_fields ==
    <<"country_from", "country_to", "date", "rate_per_kg", "available_cargo_space">>

CountryMaxLength == 100

\* errors of the "required" loop, in field order
RECURSIVE RequiredErrors(_, _)
RequiredErrors(data, i) ==
    IF i > Len(required_fields) THEN <<>>
    ELSE (IF ~Has(data, required_fields[i]) \/ Falsy(required_fields[i], data[required_fields[i]])
          THEN <<required_fields[i]>> ELSE <<>>)
         \o RequiredErrors(data, i + 1)

\* errors of the date block
DateErrors(data, now) ==
    IF ~Truthy(data, "date") THEN <<>>
    ELSE IF ~DatePatternMatches(data["date"]) THEN <<"Date must be in DDMMYYYY format">>
    ELSE LET day == ParseInt(Slice(data["date"], 0, 2))
             month == ParseInt(Slice(data["date"], 2, 4))
             year == ParseInt(Slice(data["date"], 4, 8))
         IN  IF ~(1 <= day /\ day <= 31) THEN <<"Invalid day in date">>
             ELSE IF ~(1 <= month /\ month <= 12) THEN <<"Invalid month in date">>
             ELSE IF year < now.year THEN <<"Year cannot be in the past">>
             ELSE IF ~DateOk(year, month, day) THEN <<"Invalid date">>
             ELSE IF DateBefore([year |-> year, month |-> month, day |-> day], now)
             THEN <<"Date cannot be in the past">>
             ELSE <<>>

TimeErrors(data) ==
    IF Truthy(data, "departure_time") /\ ~TimePatternMatches(data["departure_time"])
    THEN <<"Departure time must be in HH:MM format">> ELSE <<>>

RateErrors(data) ==
    IF Has(data, "rate_per_kg") /\ data["rate_per_kg"] <= 0
    THEN <<"Rate per kg must be greater than 0">> ELSE <<>>

SpaceErrors(data) ==
    IF Has(data, "available_cargo_space") /\ data["available_cargo_space"] <= 0
    THEN <<"Available cargo space must be greater than 0">> ELSE <<>>

LengthErrors(data) ==
    (IF Truthy(data, "country_from") /\ Len(data["country_from"]) > CountryMaxLength
     THEN <<"country_from too long">> ELSE <<>>)
    \o (IF Truthy(data, "country_to") /\ Len(data["country_to"]) > CountryMaxLength
        THEN <<"country_to too long">> ELSE <<>>)

\* validate_trip_data: the list of errors (valid iff it is empty)
validate_trip_data(data, now) ==
    RequiredErrors(data, 1) \o DateErrors(data, now) \o TimeErrors(data)
    \o RateErrors(data) \o SpaceErrors(data) \o LengthErrors(data)

\* ------------------------------------------------------------------ rows
TripIds == 1..MaxTrips

\* Trip.to_dict()
to_dict(id) ==
    [id |-> id,
     user_id |-> trips[id].user_id,
     country_from |-> trips[id].country_from,
     country_to |-> trips[id].country_to,
     date |-> trips[id].date,
     departure_time |-> trips[id].departure_time,
     rate_per_kg |-> trips[id].rate_per_kg,
     available_cargo_space |-> trips[id].available_cargo_space,
     status |-> trips[id].status,
     created_at |-> trips[id].created_at]

\* .order_by(Trip.created_at.desc()).all() over the rows with ids in S
RECURSIVE NewestFirst(_)
NewestFirst(S) ==
    IF S = {} THEN <<>>
    ELSE LET t == CHOOSE x \in S : \A y \in S : trips[y].created_at <= trips[x].created_at
         IN  <<to_dict(t)>> \o NewestFirst(S \ {t})

\* the first n entries: .limit(n)
Limit(seq, n) == IF Len(seq) <= n THEN seq ELSE SubSeq(seq, 1, n)

\* What is kept of a handled request: the handler (op), the bearer token and
\* the JSON body or query string it was sent (token, data), the trip id of the
\* URL (0 when it has none), the id of the user the decorator resolved
\* (caller, "" when none), the HTTP status (code) and the trips of the
\* response body.
Reply(op, code, token, caller, trip_id, data, body) ==
    [op |-> op, code |-> code, token |-> token, caller |-> caller,
     trip_id |-> trip_id, data |-> data, body |-> body]

\* ------------------------------------------------------------------ inputs
US == <<"U", "S">>
us == <<"u", "s">>
CA == <<"C", "A">>

\* the day the requests arrive: 5 November 2026
Days == { [year |-> 2026, month |-> 11, day |-> 5] }

\* date tokens: 06112026 (tomorrow), 05112026 (today), 04112026 (yesterday),
\* 29022027 (no such day), 06132026 (month 13), 00112026 (day 0), 06112025
\* (last year), 0611202 (seven digits), 0611202x, "06112026\n", ""
DateTokens ==
    { <<0, 6, 1, 1, 2, 0, 2, 6>>,
      <<0, 5, 1, 1, 2, 0, 2, 6>>,
      <<0, 4, 1, 1, 2, 0, 2, 6>>,
      <<2, 9, 0, 2, 2, 0, 2, 7>>,
      <<0, 6, 1, 3, 2, 0, 2, 6>>,
      <<0, 0, 1, 1, 2, 0, 2, 6>>,
      <<0, 6, 1, 1, 2, 0, 2, 5>>,
      <<0, 6, 1, 1, 2, 0, 2>>,
      <<0, 6, 1, 1, 2, 0, 2, OtherChar>>,
      <<0, 6, 1, 1, 2, 0, 2, 6, NL>>,
      <<>> }

\* departure-time tokens: 09:30, 25:00, 9:5, ""
TimeTokens ==
    { [h |-> <<0, 9>>, m |-> <<3, 0>>],
      [h |-> <<2, 5>>, m |-> <<0, 0>>],
      [h |-> <<9>>, m |-> <<5>>],
      EmptyTime }

BaseTrip ==
    [country_from |-> US, country_to |-> CA, date |-> <<0, 6, 1, 1, 2, 0, 2, 6>>,
     rate_per_kg |-> 1, available_cargo_space |-> 1]

\* data with one key set (or added)
With(data, field, v) == (field :> v) @@ data

\* data without one key
Without(data, field) == [f \in DOMAIN data \ {field} |-> data[f]]

\* bodies sent to POST /add: the base trip, and the base trip with one field
\* changed, added or left out
CreateBodies ==
    {EmptyData, BaseTrip}
    \cup {Without(BaseTrip, f) : f \in DOMAIN BaseTrip}
    \cup {With(BaseTrip, "country_from", v) : v \in {<<>>}}
    \cup {With(BaseTrip, "country_to", v) : v \in {us}}
    \cup {With(BaseTrip, "date", v) : v \in DateTokens}
    \cup {With(BaseTrip, "rate_per_kg", v) : v \in {0, 0 - 1}}
    \cup {With(BaseTrip, "available_cargo_space", v) : v \in {0, 0 - 1}}
    \cup {With(BaseTrip, "departure_time", v) : v \in TimeTokens}

\* bodies sent to PUT /<id>/update: at most two fields touched
UpdateBodies ==
    {EmptyData}
    \cup {("status" :> v) : v \in {"completed", "deleted", "archived"}}
    \cup {("rate_per_kg" :> v) : v \in {0}}
    \cup {("available_cargo_space" :> v) : v \in {0 - 1}}
    \cup {("date" :> v) : v \in {<<0, 1, 0, 1, 2, 0, 2, 0>>,
                                 <<0, 6, 1, 1, 2, 0, 2, OtherChar>>, <<>>}}
    \cup {("departure_time" :> v) : v \in TimeTokens \ {[h |-> <<9>>, m |-> <<5>>]}}
    \cup {("rate_per_kg" :> 2) @@ ("departure_time" :> [h |-> <<2, 5>>, m |-> <<0, 0>>])}

\* query strings sent to GET /search
SearchArgs ==
    { EmptyData,
      ("country_from" :> <<"u">>),
      ("country_to" :> <<"c", "a">>),
      ("date" :> <<0, 6, 1, 1, 2, 0, 2, 6>>),
      ("max_rate" :> 1),
      ("min_space" :> 1) @@ ("country_from" :> US) }

\* query strings sent to GET /my-trips
MyTripsArgs ==
    {EmptyData} \cup {("status" :> v) : v \in {"all", "deleted"}}

\* ------------------------------------------------------------ POST /add
\* add_trip behind token_required. commit_ok is the store's answer to
\* db.session.commit(): a failure is rolled back and answered with 500.
add_trip(token, data, commit_ok) ==
    LET auth == token_required(token)
        me == auth.user.id
        id == next_id + 1
        new_trip ==
            [user_id |-> me,
             country_from |-> data["country_from"],
             country_to |-> data["country_to"],
             date |-> parse_date_from_ddmmyyyy(data["date"]),
             departure_time |->
                 IF Truthy(data, "departure_time")
                 THEN StrpTime(data["departure_time"]) ELSE NoTime,
             rate_per_kg |-> data["rate_per_kg"],
             available_cargo_space |-> data["available_cargo_space"],
             status |-> "active",
             created_at |-> id]
    IN  IF ~auth.ok
        THEN /\ resp' = Reply("add_trip", 401, token, "", 0, data, <<>>)
             /\ UNCHANGED <<trips, next_id, today, nops>>
        ELSE IF data = EmptyData
                \/ validate_trip_data(data, today) # <<>>
                \/ parse_date_from_ddmmyyyy(data["date"]) = NoDate
                \/ (Truthy(data, "departure_time")
                    /\ StrpTime(data["departure_time"]) = NoTime)
        THEN /\ resp' = Reply("add_trip", 400, token, me, 0, data, <<>>)
             /\ UNCHANGED <<trips, next_id, today, nops>>
        ELSE IF ~commit_ok
        THEN /\ resp' = Reply("add_trip", 500, token, me, 0, data, <<>>)
             /\ UNCHANGED <<trips, next_id, today, nops>>
        ELSE /\ next_id < MaxTrips
             /\ nops < MaxOps
             /\ trips' = (id :> new_trip) @@ trips
             /\ next_id' = id
             /\ nops' = nops + 1
             /\ resp' = Reply("add_trip", 201, token, me, id, data,
                              <<[id |-> id] @@ new_trip>>)
             /\ UNCHANGED today

\* --------------------------------------------------------- GET /search
\* a search that forgets the status filter
IsActive_AnyStatus(row) == row.status = row.status

\* Trip.status == 'active'
IsActive(row) == row.status = "active"

\* a search that forgets to exclude the viewer's own trips
NotOwnTrip_Kept(row, current_user) == current_user # NoUser => row.user_id = row.user_id

\* Trip.user_id != current_user.id, applied when a user is logged in
NotOwnTrip(row, current_user) ==
    current_user # NoUser => row.user_id # current_user.id

\* the optional filters of the query string
FiltersMatch(row, args) ==
    /\ Truthy(args, "country_from") => ILike(row.country_from, args["country_from"])
    /\ Truthy(args, "country_to") => ILike(row.country_to, args["country_to"])
    /\ (Truthy(args, "date") /\ parse_date_from_ddmmyyyy(args["date"]) # NoDate)
          => row.date = parse_date_from_ddmmyyyy(args["date"])
    /\ Has(args, "max_rate") => row.rate_per_kg <= args["max_rate"]
    /\ Has(args, "min_space") => row.available_cargo_space >= args["min_space"]

\* search_trips behind optional_token (GET /api/trips runs the same code)
search_trips(token, args) ==
    LET current_user == optional_token(token)
        found == {id \in DOMAIN trips :
                     /\ IsActive(trips[id])
                     /\ NotOwnTrip(trips[id], current_user)
                     /\ FiltersMatch(trips[id], args)}
    IN  /\ resp' = Reply("search_trips", 200, token, current_user.id, 0, args,
                         NewestFirst(found))
        /\ UNCHANGED <<trips, next_id, today, nops>>

\* ------------------------------------------------------- GET /my-trips
\* the rows get_my_trips selects for a user and a query string
MyTripsQuery(user_id, args) ==
    LET status_filter == IF Has(args, "status") THEN args["status"] ELSE "all"
    IN  {id \in DOMAIN trips :
            /\ trips[id].user_id = user_id
            /\ status_filter # "all" => trips[id].status = status_filter}

get_my_trips(token, args) ==
    LET auth == token_required(token)
    IN  /\ resp' = IF ~auth.ok
                   THEN Reply("get_my_trips", 401, token, "", 0, args, <<>>)
                   ELSE Reply("get_my_trips", 200, token, auth.user.id, 0, args,
                              NewestFirst(MyTripsQuery(auth.user.id, args)))
        /\ UNCHANGED <<trips, next_id, today, nops>>

\* ------------------------------------------------------ GET /<trip_id>
\* get_trip: no decorator, hence no viewer
get_trip(trip_id) ==
    /\ resp' = IF trip_id \notin DOMAIN trips
               THEN Reply("get_trip", 404, NoToken, "", trip_id, EmptyData, <<>>)
               ELSE Reply("get_trip", 200, NoToken, "", trip_id, EmptyData,
                          <<to_dict(trip_id)>>)
    /\ UNCHANGED <<trips, next_id, today, nops>>

\* ------------------------------------------------- GET /user/<user_id>
PublicTripsLimit == 10

\* the rows get_user_trips selects
UserTripsQuery(user_id) ==
    {id \in DOMAIN trips : trips[id].user_id = user_id /\ trips[id].status = "active"}

get_user_trips(user_id) ==
    /\ resp' = IF find_by_email(user_id) = NoUser
               THEN Reply("get_user_trips", 404, NoToken, "", 0, ("user_id" :> user_id), <<>>)
               ELSE Reply("get_user_trips", 200, NoToken, "", 0, ("user_id" :> user_id),
                          Limit(NewestFirst(UserTripsQuery(user_id)), PublicTripsLimit))
    /\ UNCHANGED <<trips, next_id, today, nops>>

\* ------------------------------------------------ PUT /<trip_id>/update
updatable_fields ==
    <<"country_from", "country_to", "date", "rate_per_kg", "available_cargo_space",
      "description", "currency", "contact_info", "departure_time", "status">>

\* an ownership check that lets every authenticated caller through
NotOwner_Skipped(row, current_user) == row.user_id # row.user_id

\* trip.user_id != current_user.id
NotOwner(row, current_user) == row.user_id # current_user.id

\* setattr(trip, field, value) for a column the row holds
SetAttr(row, field, v) ==
    IF field \in DOMAIN row THEN [row EXCEPT ![field] = v] ELSE row

\* The loop over updatable_fields from position i on. outcome is "ok" when
\* the loop ran to its end, "bad_time" when it returned on a departure time
\* strptime rejects, and "unstorable" when it ran to its end after assigning
\* an empty text to the date or time column, which the commit then refuses.
RECURSIVE ApplyFields(_, _, _)
ApplyFields(row, data, i) ==
    IF i > Len(updatable_fields) THEN [row |-> row, outcome |-> "ok"]
    ELSE LET field == updatable_fields[i]
         IN  IF ~Has(data, field) THEN ApplyFields(row, data, i + 1)
             ELSE IF field = "date" /\ ~Falsy(field, data[field])
             THEN LET trip_date == parse_date_from_ddmmyyyy(data[field])
                  IN  ApplyFields(IF trip_date # NoDate
                                  THEN [row EXCEPT !.date = trip_date] ELSE row,
                                  data, i + 1)
             ELSE IF field = "departure_time" /\ ~Falsy(field, data[field])
             THEN LET t == StrpTime(data[field])
                  IN  IF t = NoTime THEN [row |-> row, outcome |-> "bad_time"]
                      ELSE ApplyFields([row EXCEPT !.departure_time = t], data, i + 1)
             ELSE IF field \in {"date", "departure_time"}
             THEN LET rest == ApplyFields(row, data, i + 1)
                  IN  IF rest.outcome = "ok"
                      THEN [rest EXCEPT !.outcome = "unstorable"] ELSE rest
             ELSE ApplyFields(SetAttr(row, field, data[field]), data, i + 1)

\* The checks of update_trip before it touches the row: the status it answers
\* with, 0 when it goes on to the loop
update_trip_error(token, trip_id, data) ==
    LET auth == token_required(token)
    IN  IF ~auth.ok THEN 401
        ELSE IF trip_id \notin DOMAIN trips THEN 404
        ELSE IF NotOwner(trips[trip_id], auth.user) THEN 403
        ELSE IF data = EmptyData THEN 400
        ELSE 0

\* a request's end that writes the assigned row out whatever the answer
Rollback_Flushes(table, trip_id, row) == [table EXCEPT ![trip_id] = row]

\* db.session.rollback(), and the removal of the session when a request ends
\* without a commit: the values assigned to the loaded row are dropped and
\* the table keeps what it held
Rollback(table, trip_id, row) == table

\* db.session.commit() of a session that loaded one row (loaded) and assigned
\* to it (row): the UPDATE the unit of work emits sets the columns whose
\* value differs from the loaded one, and leaves the others as the table has
\* them
Flush(table, trip_id, loaded, row) ==
    [table EXCEPT ![trip_id] =
        [col \in DOMAIN table[trip_id] |->
            IF row[col] # loaded[col] THEN row[col] ELSE table[trip_id][col]]]

\* update_trip behind token_required
update_trip(token, trip_id, data, commit_ok) ==
    LET auth == token_required(token)
        me == auth.user.id
        applied == ApplyFields(trips[trip_id], data, 1)
        unchanged == UNCHANGED <<trips, next_id, today, nops>>
        rolled_back ==
            /\ trips' = Rollback(trips, trip_id, applied.row)
            /\ UNCHANGED <<next_id, today, nops>>
    IN  IF update_trip_error(token, trip_id, data) # 0
        THEN resp' = Reply("update_trip", update_trip_error(token, trip_id, data), token,
                           me, trip_id, data, <<>>) /\ unchanged
        ELSE IF applied.outcome = "bad_time"
        THEN resp' = Reply("update_trip", 400, token, me, trip_id, data, <<>>) /\ rolled_back
        ELSE IF applied.outcome = "unstorable" \/ ~commit_ok
        THEN resp' = Reply("update_trip", 500, token, me, trip_id, data, <<>>) /\ rolled_back
        ELSE /\ nops < MaxOps
             /\ trips' = Flush(trips, trip_id, trips[trip_id], applied.row)
             /\ nops' = nops + 1
             /\ resp' = Reply("update_trip", 200, token, me, trip_id, data,
                              <<[id |-> trip_id] @@ applied.row>>)
             /\ UNCHANGED <<next_id, today>>

\* --------------------------------------------- DELETE /<trip_id>/delete
\* db.session.delete(trip); db.session.commit(): the table without the row
DeleteRow(table, trip_id) == [id \in DOMAIN table \ {trip_id} |-> table[id]]

\* delete_trip behind token_required
delete_trip(token, trip_id, commit_ok) ==
    LET auth == token_required(token)
        me == auth.user.id
        unchanged == UNCHANGED <<trips, next_id, today, nops>>
    IN  IF ~auth.ok
        THEN resp' = Reply("delete_trip", 401, token, "", trip_id, EmptyData, <<>>) /\ unchanged
        ELSE IF trip_id \notin DOMAIN trips
        THEN resp' = Reply("delete_trip", 404, token, me, trip_id, EmptyData, <<>>) /\ unchanged
        ELSE IF NotOwner(trips[trip_id], auth.user)
        THEN resp' = Reply("delete_trip", 403, token, me, trip_id, EmptyData, <<>>) /\ unchanged
        ELSE IF ~commit_ok
        THEN resp' = Reply("delete_trip", 500, token, me, trip_id, EmptyData, <<>>) /\ unchanged
        ELSE /\ nops < MaxOps
             /\ trips' = DeleteRow(trips, trip_id)
             /\ nops' = nops + 1
             /\ resp' = Reply("delete_trip", 200, token, me, trip_id, EmptyData, <<>>)
             /\ UNCHANGED <<next_id, today>>

\* ----------------------------------------------------------- GET /stats
\* Trip.query.filter_by(**filters).count()
CountTrips(user_id, statuses) ==
    Cardinality({id \in DOMAIN trips :
                    trips[id].user_id = user_id /\ trips[id].status \in statuses})

\* the statuses the status column holds in the table
StoredStatuses == {trips[id].status : id \in DOMAIN trips}

\* get_trip_stats behind token_required
get_trip_stats(token) ==
    LET auth == token_required(token)
        total_trips == CountTrips(auth.user.id, StoredStatuses)
        active_trips == CountTrips(auth.user.id, {"active"})
    IN  /\ resp' = IF ~auth.ok
                   THEN Reply("get_trip_stats", 401, token, "", 0, EmptyData, <<>>)
                   ELSE Reply("get_trip_stats", 200, token, auth.user.id, 0, EmptyData,
                              <<[total_trips |-> total_trips,
                                 active_trips |-> active_trips,
                                 completed_trips |-> total_trips - active_trips]>>)
        /\ UNCHANGED <<trips, next_id, today, nops>>

\* ==================================================== messaging component
\* The handlers of routes/messages.py over the document collections
\* db.users, db.trips and db.messages. The user token_required passes on is
\* the account's document; its _id is an ObjectId.
\*
\* A text here is a sequence of one-character strings; a message body is a
\* sequence of runs [ch, n] (n copies of the character ch), so that bodies of
\* a thousand characters stay small.

\* ------------------------------------------------------------ ObjectId
ObjectIdLength == 24

InvalidId == <<"InvalidId">>

IsHexChar(c) ==
    c \in {"0", "1", "2", "3", "4", "5", "6", "7", "8", "9",
           "a", "b", "c", "d", "e", "f", "A", "B", "C", "D", "E", "F"}

HexLower(c) ==
    CASE c = "A" -> "a"
      [] c = "B" -> "b"
      [] c = "C" -> "c"
      [] c = "D" -> "d"
      [] c = "E" -> "e"
      [] c = "F" -> "f"
      [] OTHER -> c

\* bson.ObjectId(text): the twelve bytes the 24 hexadecimal digits name, in
\* either letter case, or InvalidId. Its str() is the lower-case hexadecimal
\* text, which also stands for the ObjectId itself.
ObjectId(text) ==
    IF Len(text) = ObjectIdLength /\ \A i \in 1..Len(text) : IsHexChar(text[i])
    THEN [i \in 1..Len(text) |-> HexLower(text[i])]
    ELSE InvalidId

\* the id text that ends in the two given characters
IdText(x, y) == [i \in 1..(ObjectIdLength - 2) |-> "0"] \o <<x, y>>

\* sender['_id'] of the account token_required resolved
UserOid(user) ==
    CASE user.id = "u1" -> IdText("a", "1")
      [] user.id = "u2" -> IdText("c", "2")
      [] user.id = "u3" -> IdText("a", "3")
      [] OTHER -> InvalidId

\* users_collection.find_one({"_id": oid}) is not None
UserExists(oid) == \E u \in Accounts : UserOid(u) = oid

\* db.trips: the trip documents. No handler writes this collection (trips are
\* stored through models.Trip), so it holds no document.
TripDocuments == {}

\* ------------------------------------------------------- text ordering
\* ord(c) for the characters of ids and conversation ids
CharCode(c) ==
    CASE c = "0" -> 48 [] c = "1" -> 49 [] c = "2" -> 50 [] c = "3" -> 51
      [] c = "4" -> 52 [] c = "5" -> 53 [] c = "6" -> 54 [] c = "7" -> 55
      [] c = "8" -> 56 [] c = "9" -> 57
      [] c = "A" -> 65 [] c = "B" -> 66 [] c = "C" -> 67 [] c = "D" -> 68
      [] c = "E" -> 69 [] c = "F" -> 70
      [] c = "_" -> 95
      [] c = "a" -> 97 [] c = "b" -> 98 [] c = "c" -> 99 [] c = "d" -> 100
      [] c = "e" -> 101 [] c = "f" -> 102
      [] OTHER -> 122

\* a < b for Python strings: by code point at the first difference, a proper
\* prefix first
TextLess(a, b) ==
    \E i \in 1..(Len(a) + 1) :
        /\ i <= Len(b)
        /\ \A j \in 1..(i - 1) : a[j] = b[j]
        /\ (i = Len(a) + 1 \/ CharCode(a[i]) < CharCode(b[i]))

\* sorted([a, b])
SortedPair(a, b) == IF TextLess(b, a) THEN <<b, a>> ELSE <<a, b>>

\* generate_conversation_id: f"{ids[0]}_{ids[1]}" over the sorted texts
generate_conversation_id(user1_id, user2_id) ==
    LET ids == SortedPair(user1_id, user2_id)
    IN  ids[1] \o <<"_">> \o ids[2]

\* ----------------------------------------------------- message bodies
MaxMessageLength == 1000

IsSpaceRun(run) == run.ch = " "

\* str.strip(): without the leading and trailing white space
RECURSIVE Strip(_)
Strip(t) ==
    IF t = <<>> THEN <<>>
    ELSE IF IsSpaceRun(t[1]) THEN Strip(Tail(t))
    ELSE IF IsSpaceRun(t[Len(t)]) THEN Strip(SubSeq(t, 1, Len(t) - 1))
    ELSE t

\* len(text)
RECURSIVE TextLen(_)
TextLen(t) == IF t = <<>> THEN 0 ELSE t[1].n + TextLen(Tail(t))

\* ------------------------------------------------------- message store
\* What is kept of a handled messaging request: the handler (op), the HTTP
\* status (code), the bearer token, the _id of the user the decorator resolved
\* (caller, "" when none), the JSON body or URL argument (data), the
\* conversation id the handler worked on, the entries of the response body and
\* the updated_count returned.
MsgReply(op, code, token, caller, data, conversation_id, body, count) ==
    [op |-> op, code |-> code, token |-> token, caller |-> caller, data |-> data,
     conversation_id |-> conversation_id, body |-> body, count |-> count]

\* the positions of the documents matching {'conversation_id': ...,
\* 'recipient_id': user['_id'], 'read': False}
Unread(msgs, conversation_id, user_id) ==
    {i \in 1..Len(msgs) :
        /\ msgs[i].conversation_id = conversation_id
        /\ msgs[i].recipient_id = user_id
        /\ ~msgs[i].read}

\* an update that rewrites the body while it sets the flag
SetRead_Rewrites(msg) == [msg EXCEPT !.read = TRUE, !.message = <<>>]

\* {'$set': {'read': True}}
SetRead(msg) == [msg EXCEPT !.read = TRUE]

\* update_many(filter, {'$set': {'read': True}}) over the selected positions
UpdateMany(msgs, selected) ==
    [i \in 1..Len(msgs) |-> IF i \in selected THEN SetRead(msgs[i]) ELSE msgs[i]]

\* -------------------------------------------------------- POST /send
send_required_fields == <<"recipient_id", "message", "trip_id">>

\* send_message behind token_required. insert_ok is the store's answer to
\* insert_one: a failure is answered with 500.
send_message(token, data, insert_ok) ==
    LET auth == token_required(token)
        sender_id == UserOid(auth.user)
        message_text == Strip(data["message"])
        recipient_id == ObjectId(data["recipient_id"])
        trip_id == data["trip_id"]
        message_doc ==
            [sender_id |-> sender_id,
             recipient_id |-> recipient_id,
             trip_id |-> IF trip_id # <<>> THEN ObjectId(trip_id) ELSE <<>>,
             message |-> message_text,
             created_at |-> Len(messages) + 1,
             read |-> FALSE,
             conversation_id |->
                 generate_conversation_id(sender_id, data["recipient_id"])]
        reply(code, caller) ==
            /\ msg_resp' = MsgReply("send_message", code, token, caller, data, <<>>, <<>>, 0)
            /\ UNCHANGED messages
    IN  IF ~auth.ok THEN reply(401, <<>>)
        ELSE IF data = EmptyData THEN reply(400, sender_id)
        ELSE IF \E i \in 1..Len(send_required_fields) : ~Has(data, send_required_fields[i])
        THEN reply(400, sender_id)
        ELSE IF TextLen(message_text) < 1 THEN reply(400, sender_id)
        ELSE IF TextLen(message_text) > MaxMessageLength THEN reply(400, sender_id)
        ELSE IF recipient_id = InvalidId THEN reply(400, sender_id)
        ELSE IF ~UserExists(recipient_id) THEN reply(404, sender_id)
        ELSE IF sender_id = data["recipient_id"] THEN reply(400, sender_id)
        ELSE IF trip_id # <<>> /\ ObjectId(trip_id) = InvalidId THEN reply(400, sender_id)
        ELSE IF trip_id # <<>> /\ ObjectId(trip_id) \notin TripDocuments
        THEN reply(404, sender_id)
        ELSE IF ~insert_ok THEN reply(500, sender_id)
        ELSE /\ Len(messages) < MaxMessages
             /\ messages' = Append(messages, message_doc)
             /\ msg_resp' = MsgReply("send_message", 201, token, sender_id, data,
                                     message_doc.conversation_id, <<message_doc>>, 0)

\* --------------------------------------- GET /conversation/<user_id>
\* the messages of a conversation, oldest first, as the response shows them
MessageList(msgs, conversation_id, viewer_id) ==
    LET RECURSIVE from(_)
        from(i) ==
            IF i > Len(msgs) THEN <<>>
            ELSE (IF msgs[i].conversation_id = conversation_id
                  THEN <<[id |-> i,
                          sender_id |-> msgs[i].sender_id,
                          recipient_id |-> msgs[i].recipient_id,
                          read |-> msgs[i].read,
                          is_mine |-> msgs[i].sender_id = viewer_id]>>
                  ELSE <<>>) \o from(i + 1)
    IN  from(1)

\* get_conversation behind token_required
get_conversation(token, user_id) ==
    LET auth == token_required(token)
        sender_id == UserOid(auth.user)
        conversation_id == generate_conversation_id(sender_id, user_id)
        reply(code, caller) ==
            /\ msg_resp' = MsgReply("get_conversation", code, token, caller, user_id,
                                    <<>>, <<>>, 0)
            /\ UNCHANGED messages
    IN  IF ~auth.ok THEN reply(401, <<>>)
        ELSE IF ObjectId(user_id) = InvalidId THEN reply(400, sender_id)
        ELSE IF ~UserExists(ObjectId(user_id)) THEN reply(404, sender_id)
        ELSE /\ messages' = UpdateMany(messages, Unread(messages, conversation_id, sender_id))
             /\ msg_resp' = MsgReply("get_conversation", 200, token, sender_id, user_id,
                                     conversation_id,
                                     MessageList(messages, conversation_id, sender_id), 0)

\* ------------------------------------------------- GET /conversations
\* $match: the positions of the messages the user sent or received
Touching(msgs, user_id) ==
    {i \in 1..Len(msgs) : msgs[i].sender_id = user_id \/ msgs[i].recipient_id = user_id}

\* count_documents({'conversation_id': ..., 'recipient_id': ..., 'read': False})
UnreadCount(msgs, conversation_id, user_id) ==
    Cardinality(Unread(msgs, conversation_id, user_id))

\* $sort created_at -1, $group by conversation_id with $first: the newest
\* matched message of each conversation; then one entry per conversation
\* whose other user exists
ConversationEntry(msgs, user_id, i) ==
    LET other_user_id == IF msgs[i].sender_id = user_id
                         THEN msgs[i].recipient_id ELSE msgs[i].sender_id
    IN  [conversation_id |-> msgs[i].conversation_id,
         other_user |-> other_user_id,
         last_message |-> msgs[i].message,
         last_message_time |-> msgs[i].created_at,
         unread_count |-> UnreadCount(msgs, msgs[i].conversation_id, user_id),
         trip_id |-> msgs[i].trip_id]

\* the conversation list of a user, most recent conversation first
ConversationList(msgs, user_id) ==
    LET last == {i \in Touching(msgs, user_id) :
                    \A j \in Touching(msgs, user_id) :
                        msgs[j].conversation_id = msgs[i].conversation_id => j <= i}
        RECURSIVE newest(_)
        newest(S) ==
            IF S = {} THEN <<>>
            ELSE LET i == CHOOSE x \in S : \A y \in S : y <= x
                     other == ConversationEntry(msgs, user_id, i).other_user
                 IN  (IF UserExists(other)
                      THEN <<ConversationEntry(msgs, user_id, i)>> ELSE <<>>)
                     \o newest(S \ {i})
    IN  newest(last)

\* get_conversations behind token_required
get_conversations(token) ==
    LET auth == token_required(token)
    IN  /\ msg_resp' =
               IF ~auth.ok
               THEN MsgReply("get_conversations", 401, token, <<>>, EmptyData, <<>>, <<>>, 0)
               ELSE MsgReply("get_conversations", 200, token, UserOid(auth.user),
                             EmptyData, <<>>,
                             ConversationList(messages, UserOid(auth.user)), 0)
        /\ UNCHANGED messages

\* ---------------------------------------------------- POST /mark-read
\* mark_messages_read behind token_required
mark_messages_read(token, data) ==
    LET auth == token_required(token)
        user_id == UserOid(auth.user)
        selected == Unread(messages, data["conversation_id"], user_id)
    IN  IF ~auth.ok
        THEN /\ msg_resp' = MsgReply("mark_messages_read", 401, token, <<>>, data,
                                     <<>>, <<>>, 0)
             /\ UNCHANGED messages
        ELSE IF data = EmptyData \/ ~Has(data, "conversation_id")
        THEN /\ msg_resp' = MsgReply("mark_messages_read", 400, token, user_id, data,
                                     <<>>, <<>>, 0)
             /\ UNCHANGED messages
        ELSE /\ messages' = UpdateMany(messages, selected)
             /\ msg_resp' = MsgReply("mark_messages_read", 200, token, user_id, data,
                                     data["conversation_id"], <<>>, Cardinality(selected))

\* =============================================== authentication component
\* The handlers of routes/auth.py over db.users (UserModel of db.py). An
\* email or a password is a sequence of one-character strings. A user
\* document's _id is its position in users; a token's user_id claim is that
\* position, 0 when the payload has no user_id (verification and password
\* reset tokens).

\* ------------------------------------------------------------- texts
IsSpace(c) == c \in {" ", "\n", "\t"}

\* str.strip() of a text
RECURSIVE StripText(_)
StripText(t) ==
    IF t = <<>> THEN <<>>
    ELSE IF IsSpace(t[1]) THEN StripText(Tail(t))
    ELSE IF IsSpace(t[Len(t)]) THEN StripText(SubSeq(t, 1, Len(t) - 1))
    ELSE t

LowerLetters ==
    {"a", "b", "c", "d", "e", "f", "g", "h", "i", "j", "k", "l", "m",
     "n", "o", "p", "q", "r", "s", "t", "u", "v", "w", "x", "y", "z"}

UpperLetters ==
    {"A", "B", "C", "D", "E", "F", "G", "H", "I", "J", "K", "L", "M",
     "N", "O", "P", "Q", "R", "S", "T", "U", "V", "W", "X", "Y", "Z"}

DigitChars == {"0", "1", "2", "3", "4", "5", "6", "7", "8", "9"}

IsLetter(c) == c \in LowerLetters \cup UpperLetters

\* an email kept with its letter case
NormalizeEmail_KeepsCase(email) == StripText(email)

\* email.strip().lower() of register and login, email.lower().strip() of
\* UserModel
NormalizeEmail(email) == Lower(StripText(email))

\* validate_email: ^[a-zA-Z0-9._%+-]+@[a-zA-Z0-9.-]+\.[a-zA-Z]{2,}$
validate_email(email) ==
    \E at \in 1..Len(email), dot \in 1..Len(email) :
        /\ email[at] = "@" /\ email[dot] = "."
        /\ 1 < at /\ at + 1 < dot /\ dot + 2 <= Len(email)
        /\ \A i \in 1..(at - 1) :
              IsLetter(email[i]) \/ email[i] \in DigitChars \cup {".", "_", "%", "+", "-"}
        /\ \A i \in (at + 1)..(dot - 1) :
              IsLetter(email[i]) \/ email[i] \in DigitChars \cup {".", "-"}
        /\ \A i \in (dot + 1)..Len(email) : IsLetter(email[i])

MinPasswordLength == 8

\* validate_password: at least eight characters with an upper-case letter, a
\* lower-case letter and a digit
validate_password(password) ==
    /\ Len(password) >= MinPasswordLength
    /\ \E i \in 1..Len(password) : password[i] \in UpperLetters
    /\ \E i \in 1..Len(password) : password[i] \in LowerLetters
    /\ \E i \in 1..Len(password) : password[i] \in DigitChars

\* a hash that forgets the password it was made from
hashpw_Blank(password) == [bcrypt |-> <<>>]

\* bcrypt.hashpw(password, gensalt()): a hash remembers which password made it
hashpw(password) == [bcrypt |-> password]

\* bcrypt.checkpw(password, hashed)
checkpw(password, hashed) == hashed.bcrypt = password

\* ------------------------------------------------------------- users
\* UserModel.find_by_email over db.users: the document, or None (NoUser)
FindByEmail(email) ==
    IF \E i \in 1..Len(users) : users[i].email = NormalizeEmail(email)
    THEN users[CHOOSE i \in 1..Len(users) : users[i].email = NormalizeEmail(email)]
    ELSE NoUser

\* UserModel.find_by_id: the document, or None (NoUser)
FindById(user_id) ==
    IF user_id \in 1..Len(users) THEN users[user_id] ELSE NoUser

\* UserModel.create_user: db.users with the new document. now is the reading
\* of the clock; BSON keeps a datetime to the millisecond. created_at is
\* written once and read by no handler that decides anything; it is left out.
CreateUser(email, hashed_password, now) ==
    Append(users, [id |-> Len(users) + 1,
                   email |-> NormalizeEmail(email),
                   password |-> hashed_password,
                   is_verified |-> FALSE,
                   first_name |-> <<>>,
                   last_name |-> <<>>,
                   phone |-> <<>>,
                   updated_at |-> now])

\* {"$set": update_data} applied to one document: the keys set are added to
\* the document or overwritten in it
SetFields(doc, update_data) ==
    [k \in DOMAIN doc \cup DOMAIN update_data |->
        IF k \in DOMAIN update_data THEN update_data[k] ELSE doc[k]]

\* update_one(filter, {"$set": update_data}) on the document at one position
UpdateOne(user_id, update_data) ==
    [users EXCEPT ![user_id] = SetFields(users[user_id], update_data)]

\* result.modified_count of that update_one: 1 when the document changed
ModifiedCount(user_id, update_data) ==
    IF SetFields(users[user_id], update_data) # users[user_id] THEN 1 ELSE 0

\* the readings datetime.utcnow() can give next: the millisecond of the last
\* reading, or a later one
Now == {t \in {clock, clock + 1} : t <= MaxClock}

\* The handlers below read the clock where create_user, verify_email and
\* update_user read it: in the branch that writes.

\* ------------------------------------------------------------ tokens
\* jwt.encode of the four payloads; every token is signed with JWT_SECRET
create_session_token(user) ==
    [hdr |-> TRUE, sig |-> TRUE, type |-> "access", email |-> user.email,
     user_id |-> user.id]

create_remember_token(user) ==
    [hdr |-> TRUE, sig |-> TRUE, type |-> "remember", email |-> user.email,
     user_id |-> user.id]

create_verification_token(email) ==
    [hdr |-> TRUE, sig |-> TRUE, type |-> "verification", email |-> email, user_id |-> 0]

create_password_reset_token(email) ==
    [hdr |-> TRUE, sig |-> TRUE, type |-> "password_reset", email |-> email, user_id |-> 0]

\* verify_email_token: the email, or None (<<>>)
verify_email_token(token) ==
    IF Decodes(token) /\ token.type = "verification" THEN token.email ELSE <<>>

\* verify_password_reset_token: the email, or None (<<>>)
verify_password_reset_token(token) ==
    IF Decodes(token) /\ token.type = "password_reset" THEN token.email ELSE <<>>

\* a refresh that takes any signed token
IsRememberToken_AnyType(token) == token.type = token.type

\* payload.get("type") == "remember"
IsRememberToken(token) == token.type = "remember"

\* a login that forgets the verification check
IsVerified_Skipped(user) == user.is_verified = user.is_verified

\* user.get("is_verified", False)
IsVerified(user) == user.is_verified

\* What is kept of a handled authentication request: the handler (op), the
\* HTTP status (code), the error message of the body ("" when none), the
\* token presented, the JSON body, and the tokens the response carries.
AuthReply(op, code, error, token, data, issued) ==
    [op |-> op, code |-> code, error |-> error, token |-> token, data |-> data,
     issued |-> issued]

\* ----------------------------------------------------- POST /register
\* register. mail_ok is the mail server's answer to mail.send: the account is
\* created either way, the verification token arrives only when it is sent.
\* The checks of register up to the existence check: the status and error it
\* answers with, status 0 when the request goes on to create the user
register_error(data) ==
    LET email == NormalizeEmail(IF Has(data, "email") THEN data["email"] ELSE <<>>)
        password == IF Has(data, "password") THEN data["password"] ELSE <<>>
    IN  IF data = EmptyData THEN [code |-> 400, error |-> "JSON data required"]
        ELSE IF email = <<>> \/ password = <<>>
        THEN [code |-> 400, error |-> "Email and password are required"]
        ELSE IF ~validate_email(email) THEN [code |-> 400, error |-> "Invalid email format"]
        ELSE IF ~validate_password(password)
        THEN [code |-> 400, error |-> "Invalid password"]
        ELSE IF FindByEmail(email) # NoUser
        THEN [code |-> 409, error |-> "Email already registered"]
        ELSE [code |-> 0, error |-> ""]

\* an insert that meets no unique index
DuplicateKey_NoIndex(email) == FALSE

\* the unique index on users.email (create_indexes): insert_one raises
\* DuplicateKeyError for an email a document already holds
DuplicateKey(email) == \E i \in 1..Len(users) : users[i].email = NormalizeEmail(email)

\* register from create_user on; the error insert_one raises is answered 500
\* by the handler's except
register_create(data, mail_ok) ==
    LET email == NormalizeEmail(data["email"])
    IN  IF DuplicateKey(email)
        THEN /\ auth_resp' = AuthReply("register", 500, "Internal server error", NoToken,
                                       data, {})
             /\ UNCHANGED <<users, minted, clock>>
        ELSE /\ Len(users) < MaxUsers
             /\ \E now \in Now :
                   /\ users' = CreateUser(email, hashpw(data["password"]), now)
                   /\ clock' = now
             /\ minted' = IF mail_ok
                          THEN minted \cup {create_verification_token(email)}
                          ELSE minted
             /\ auth_resp' = AuthReply("register", 201, "", NoToken, data, {})

register(data, mail_ok) ==
    IF register_error(data).code # 0
    THEN /\ auth_resp' = AuthReply("register", register_error(data).code,
                                   register_error(data).error, NoToken, data, {})
         /\ UNCHANGED <<users, minted, clock>>
    ELSE register_create(data, mail_ok)

\* -------------------------------------------------------- POST /login
InvalidCredentials == "Invalid email or password"

EmailNotVerified == "Please verify your email before logging in"

login(data) ==
    LET email == NormalizeEmail(IF Has(data, "email") THEN data["email"] ELSE <<>>)
        password == IF Has(data, "password") THEN data["password"] ELSE <<>>
        remember_me == Has(data, "remember_me") /\ data["remember_me"]
        user == FindByEmail(email)
        tokens == {create_session_token(user)}
                  \cup (IF remember_me THEN {create_remember_token(user)} ELSE {})
        reply(code, error) ==
            /\ auth_resp' = AuthReply("login", code, error, NoToken, data, {})
            /\ UNCHANGED <<users, minted, clock>>
    IN  IF data = EmptyData THEN reply(400, "JSON data required")
        ELSE IF email = <<>> \/ password = <<>>
        THEN reply(400, "Email and password are required")
        ELSE IF user = NoUser THEN reply(401, InvalidCredentials)
        ELSE IF ~checkpw(password, user.password) THEN reply(401, InvalidCredentials)
        ELSE IF ~IsVerified(user) THEN reply(401, EmailNotVerified)
        ELSE /\ auth_resp' = AuthReply("login", 200, "", NoToken, data, tokens)
             /\ minted' = minted \cup tokens
             /\ UNCHANGED <<users, clock>>

\* ------------------------------------------------- POST /verify-token
\* verify_token: decodes the bearer token and looks its user_id up; a payload
\* without user_id raises KeyError, answered 401 by the handler's except
verify_token(token) ==
    LET reply(code, error) ==
            /\ auth_resp' = AuthReply("verify_token", code, error, token, EmptyData, {})
            /\ UNCHANGED <<users, minted, clock>>
    IN  IF ~token.hdr THEN reply(401, "Token is missing")
        ELSE IF ~Decodes(token) THEN reply(401, "Invalid token")
        ELSE IF token.user_id = 0 THEN reply(401, "Token verification failed")
        ELSE IF FindById(token.user_id) = NoUser THEN reply(401, "User not found")
        ELSE reply(200, "")

\* ------------------------------------------------ POST /refresh-token
\* the checks of refresh_token on a token: the error of the 401 it answers
\* with, "" when the token is exchanged
RefreshError(token) ==
    IF ~token.hdr THEN "Token is missing"
    ELSE IF ~Decodes(token) THEN "Invalid remember token"
    ELSE IF ~IsRememberToken(token) THEN "Invalid token type for refresh"
    ELSE IF token.user_id = 0 THEN "Token refresh failed"
    ELSE IF FindById(token.user_id) = NoUser THEN "User not found"
    ELSE ""

refresh_token(token) ==
    LET reply(code, error) ==
            /\ auth_resp' = AuthReply("refresh_token", code, error, token, EmptyData, {})
            /\ UNCHANGED <<users, minted, clock>>
        new_access_token == create_session_token(FindById(token.user_id))
    IN  IF RefreshError(token) # "" THEN reply(401, RefreshError(token))
        ELSE /\ auth_resp' = AuthReply("refresh_token", 200, "", token, EmptyData,
                                       {new_access_token})
             /\ minted' = minted \cup {new_access_token}
             /\ UNCHANGED <<users, clock>>

\* ------------------------------------------------ GET /verify/<token>
\* verify_email: UserModel.verify_email sets is_verified and updated_at, and
\* the handler answers by the update's modified_count
verify_email(token) ==
    LET email == verify_email_token(token)
        user == FindByEmail(email)
        update_data(now) == [is_verified |-> TRUE, updated_at |-> now]
        reply(code, error) ==
            /\ auth_resp' = AuthReply("verify_email", code, error, token, EmptyData, {})
            /\ UNCHANGED <<users, minted, clock>>
    IN  IF email = <<>> THEN reply(400, "Invalid or expired verification token")
        ELSE IF user = NoUser THEN reply(400, "User not found or already verified")
        ELSE \E now \in Now :
                IF ModifiedCount(user.id, update_data(now)) = 0
                THEN reply(400, "User not found or already verified")
                ELSE /\ users' = UpdateOne(user.id, update_data(now))
                     /\ clock' = now
                     /\ auth_resp' = AuthReply("verify_email", 200, "", token,
                                               EmptyData, {})
                     /\ UNCHANGED minted

\* ---------------------------------------------- POST /forgot-password
\* forgot_password: answers 200 whether or not the email is known, and mails
\* a reset token to a known one; a failing mail server is answered 500
forgot_password(data, mail_ok) ==
    LET email == NormalizeEmail(IF Has(data, "email") THEN data["email"] ELSE <<>>)
        reply(code, error) ==
            /\ auth_resp' = AuthReply("forgot_password", code, error, NoToken, data, {})
            /\ UNCHANGED <<users, minted, clock>>
    IN  IF data = EmptyData THEN reply(400, "JSON data required")
        ELSE IF email = <<>> THEN reply(400, "Email is required")
        ELSE IF FindByEmail(email) = NoUser THEN reply(200, "")
        ELSE IF ~mail_ok THEN reply(500, "Failed to send reset email")
        ELSE /\ minted' = minted \cup {create_password_reset_token(email)}
             /\ auth_resp' = AuthReply("forgot_password", 200, "", NoToken, data, {})
             /\ UNCHANGED <<users, clock>>

\* --------------------------------------- POST /reset-password/<token>
\* reset_password: the new hash carries a fresh salt (bcrypt.gensalt), so the
\* update always modifies the document
reset_password(token, data) ==
    LET new_password == IF Has(data, "password") THEN data["password"] ELSE <<>>
        email == verify_password_reset_token(token)
        user == FindByEmail(email)
        reply(code, error) ==
            /\ auth_resp' = AuthReply("reset_password", code, error, token, data, {})
            /\ UNCHANGED <<users, minted, clock>>
    IN  IF data = EmptyData THEN reply(400, "JSON data required")
        ELSE IF new_password = <<>> THEN reply(400, "New password is required")
        ELSE IF ~validate_password(new_password) THEN reply(400, "Invalid password")
        ELSE IF email = <<>> THEN reply(400, "Invalid or expired reset token")
        ELSE IF user = NoUser THEN reply(404, "User not found")
        ELSE /\ \E now \in Now :
                   /\ users' = UpdateOne(user.id, [password |-> hashpw(new_password),
                                                   updated_at |-> now])
                   /\ clock' = now
             /\ auth_resp' = AuthReply("reset_password", 200, "", token, data, {})
             /\ UNCHANGED minted

\* ----------------------------------------------- POST /change-password
\* change_password behind token_required; as in reset_password the fresh salt
\* makes the update modify the document
change_password(token, data) ==
    LET auth == token_required_on(token, FindByEmail(token.email))
        current_user == auth.user
        current_password ==
            IF Has(data, "current_password") THEN data["current_password"] ELSE <<>>
        new_password == IF Has(data, "new_password") THEN data["new_password"] ELSE <<>>
        reply(code, error) ==
            /\ auth_resp' = AuthReply("change_password", code, error, token, data, {})
            /\ UNCHANGED <<users, minted, clock>>
    IN  IF ~auth.ok THEN reply(401, auth.error)
        ELSE IF data = EmptyData THEN reply(400, "JSON data required")
        ELSE IF current_password = <<>> \/ new_password = <<>>
        THEN reply(400, "Current password and new password are required")
        ELSE IF ~checkpw(current_password, current_user.password)
        THEN reply(401, "Current password is incorrect")
        ELSE IF ~validate_password(new_password) THEN reply(400, "Invalid password")
        ELSE /\ \E now \in Now :
                   /\ users' = UpdateOne(current_user.id,
                                         [password |-> hashpw(new_password),
                                          updated_at |-> now])
                   /\ clock' = now
             /\ auth_resp' = AuthReply("change_password", 200, "", token, data, {})
             /\ UNCHANGED minted

\* ------------------------------------------- PUT /api/users/profile
\* update_profile of routes/users.py. The values of a profile body are texts;
\* a bio is a sequence of runs, as a message body is.
\* a whitelist that lets the email through as well
allowed_fields_WithEmail ==
    <<"firstname", "lastname", "phone", "company", "website", "bio", "email">>

allowed_fields == <<"firstname", "lastname", "phone", "company", "website", "bio">>

MinPhoneLength == 10

MaxBioLength == 500

HttpPrefix == <<"h", "t", "t", "p", ":", "/", "/">>

HttpsPrefix == <<"h", "t", "t", "p", "s", ":", "/", "/">>

\* value.startswith(prefix)
StartsWith(value, prefix) ==
    Len(value) >= Len(prefix) /\ SubSeq(value, 1, Len(prefix)) = prefix

\* value.strip() of a field's value
StripValue(field, value) == IF field = "bio" THEN Strip(value) ELSE StripText(value)

\* The loop over allowed_fields from position i on: the update_data it builds,
\* or the error it returns on
RECURSIVE CollectProfile(_, _, _)
CollectProfile(data, i, update_data) ==
    IF i > Len(allowed_fields) THEN [error |-> "", update_data |-> update_data]
    ELSE LET field == allowed_fields[i]
             value == StripValue(field, data[field])
         IN  IF ~Has(data, field) THEN CollectProfile(data, i + 1, update_data)
             ELSE IF field = "phone" /\ value # <<>> /\ Len(value) < MinPhoneLength
             THEN [error |-> "Phone number must be at least 10 digits",
                   update_data |-> update_data]
             ELSE IF field = "bio" /\ value # <<>> /\ TextLen(value) > MaxBioLength
             THEN [error |-> "Bio cannot exceed 500 characters",
                   update_data |-> update_data]
             ELSE CollectProfile(
                      data, i + 1,
                      (field :> (IF /\ field = "website" /\ value # <<>>
                                    /\ ~StartsWith(value, HttpPrefix)
                                    /\ ~StartsWith(value, HttpsPrefix)
                                 THEN HttpsPrefix \o value ELSE value))
                      @@ update_data)

\* update_profile behind token_required
update_profile(token, data) ==
    LET auth == token_required_on(token, FindByEmail(token.email))
        user == auth.user
        collected == CollectProfile(data, 1, EmptyData)
        update_data(now) == ("updated_at" :> now) @@ collected.update_data
        reply(code, error) ==
            /\ auth_resp' = AuthReply("update_profile", code, error, token, data, {})
            /\ UNCHANGED <<users, minted, clock>>
    IN  IF ~auth.ok THEN reply(401, auth.error)
        ELSE IF data = EmptyData THEN reply(400, "No data provided")
        ELSE IF collected.error # "" THEN reply(400, collected.error)
        ELSE IF collected.update_data = EmptyData THEN reply(400, "No valid fields to update")
        ELSE \E now \in Now :
                IF ModifiedCount(user.id, update_data(now)) = 0
                THEN reply(400, "No changes made")
                ELSE /\ users' = UpdateOne(user.id, update_data(now))
                     /\ clock' = now
                     /\ auth_resp' = AuthReply("update_profile", 200, "", token, data, {})
                     /\ UNCHANGED minted

\* -------------------------------------------- PUT /api/auth/profile
\* update_profile of routes/auth.py, which takes three fields
auth_updatable_fields == <<"first_name", "last_name", "phone">>

\* its update_data: the fields of the body among the three, stripped
AuthUpdateData(data) ==
    [field \in {auth_updatable_fields[i] : i \in 1..Len(auth_updatable_fields)}
                 \cap DOMAIN data |-> StripText(data[field])]

auth_update_profile(token, data) ==
    LET auth == token_required_on(token, FindByEmail(token.email))
        current_user == auth.user
        update_data(now) == ("updated_at" :> now) @@ AuthUpdateData(data)
        reply(code, error) ==
            /\ auth_resp' = AuthReply("auth_update_profile", code, error, token, data, {})
            /\ UNCHANGED <<users, minted, clock>>
    IN  IF ~auth.ok THEN reply(401, auth.error)
        ELSE IF data = EmptyData THEN reply(400, "JSON data required")
        ELSE IF AuthUpdateData(data) = EmptyData THEN reply(400, "No valid fields to update")
        ELSE \E now \in Now :
                IF ModifiedCount(current_user.id, update_data(now)) = 0
                THEN reply(500, "Failed to update profile")
                ELSE /\ users' = UpdateOne(current_user.id, update_data(now))
                     /\ clock' = now
                     /\ auth_resp' = AuthReply("auth_update_profile", 200, "", token,
                                               data, {})
                     /\ UNCHANGED minted

\* -------------------------------------------------------- GET /profile
\* get_profile behind token_required
get_profile(token) ==
    LET auth == token_required_on(token, FindByEmail(token.email))
    IN  /\ auth_resp' = IF ~auth.ok
                        THEN AuthReply("get_profile", 401, auth.error, token, EmptyData, {})
                        ELSE AuthReply("get_profile", 200, "", token, EmptyData, {})
        /\ UNCHANGED <<users, minted, clock>>

\* ---------------------------------------------------------- specification
Init ==
    /\ trips = EmptyData
    /\ next_id = 0
    /\ today \in Days
    /\ nops = 0
    /\ resp = Reply("none", 0, NoToken, "", 0, EmptyData, <<>>)
    /\ messages = <<>>
    /\ msg_resp = MsgReply("none", 0, NoToken, <<>>, EmptyData, <<>>, <<>>, 0)
    /\ users = <<>>
    /\ minted = {}
    /\ clock = 0
    /\ auth_resp = AuthReply("none", 0, "", NoToken, EmptyData, {})
    /\ pending = <<>>
    /\ sessions = <<>>
    /\ fetched = <<>>

\* The requests the clients send. Creating, searching and listing meet every
\* token, updating and deleting meet no token and the two owners' tokens;
\* user u1 sends every body, user u2 a few, and the store refuses a commit
\* only for the base request.
AccessToken(email) == [hdr |-> TRUE, sig |-> TRUE, type |-> "access", email |-> email]

OwnerTokens == {AccessToken("u1"), AccessToken("u2")}

AddRequests ==
    [token : Tokens, data : {BaseTrip}, commit_ok : {TRUE}]
    \cup [token : {AccessToken("u1")}, data : CreateBodies, commit_ok : {TRUE}]
    \cup [token : {AccessToken("u1")}, data : {BaseTrip}, commit_ok : {FALSE}]

UpdateRequests ==
    [token : {NoToken} \cup OwnerTokens, data : {("status" :> "completed")},
     commit_ok : {TRUE}]
    \cup [token : {AccessToken("u1")}, data : UpdateBodies, commit_ok : {TRUE}]
    \cup [token : {AccessToken("u2")}, data : {("status" :> "deleted")},
          commit_ok : {TRUE}]
    \cup [token : {AccessToken("u1")}, data : {("status" :> "completed")},
          commit_ok : {FALSE}]

DeleteRequests ==
    [token : {NoToken} \cup OwnerTokens, commit_ok : {TRUE}]
    \cup [token : {AccessToken("u1")}, commit_ok : {FALSE}]

AddTrip == \E r \in AddRequests : add_trip(r.token, r.data, r.commit_ok)

SearchRequests ==
    [token : Tokens, args : {EmptyData}]
    \cup [token : {AccessToken("u1")}, args : SearchArgs]

MyTripsRequests ==
    [token : Tokens, args : {EmptyData}]
    \cup [token : OwnerTokens, args : MyTripsArgs]

SearchTrips == \E r \in SearchRequests : search_trips(r.token, r.args)

GetMyTrips == \E r \in MyTripsRequests : get_my_trips(r.token, r.args)

GetTrip == \E trip_id \in TripIds : get_trip(trip_id)

GetUserTrips == \E user_id \in {"u1", "u2", "u3", "ghost"} : get_user_trips(user_id)

UpdateTrip == \E r \in UpdateRequests, trip_id \in TripIds :
    update_trip(r.token, trip_id, r.data, r.commit_ok)

DeleteTrip == \E r \in DeleteRequests, trip_id \in TripIds :
    delete_trip(r.token, trip_id, r.commit_ok)

GetTripStats == \E token \in Tokens : get_trip_stats(token)

\* the trip handlers touch neither db.messages nor the users of routes/auth.py
Next ==
    \/ AddTrip /\ UNCHANGED <<msg_vars, auth_vars, race_vars>>
    \/ SearchTrips /\ UNCHANGED <<msg_vars, auth_vars, race_vars>>
    \/ GetMyTrips /\ UNCHANGED <<msg_vars, auth_vars, race_vars>>
    \/ GetTrip /\ UNCHANGED <<msg_vars, auth_vars, race_vars>>
    \/ GetUserTrips /\ UNCHANGED <<msg_vars, auth_vars, race_vars>>
    \/ UpdateTrip /\ UNCHANGED <<msg_vars, auth_vars, race_vars>>
    \/ DeleteTrip /\ UNCHANGED <<msg_vars, auth_vars, race_vars>>
    \/ GetTripStats /\ UNCHANGED <<msg_vars, auth_vars, race_vars>>

Spec == Init /\ [][Next]_vars

\* ------------------------------------------- messaging specification
\* id texts the clients send: the ids of u1 and u2 in lower case and in upper
\* case, a well-formed id of no user, a text that is no id
A1 == IdText("a", "1")
A1Upper == IdText("A", "1")
C2 == IdText("c", "2")
C2Upper == IdText("C", "2")
A3 == IdText("a", "3")
NobodyId == IdText("a", "9")
NotAnId == <<"z", "z">>

\* message bodies: "", " ", "x", a thousand "x", a thousand and one "x", and a
\* thousand "x" between two blanks
Xs(n) == <<[ch |-> "x", n |-> n]>>
Blank == <<[ch |-> " ", n |-> 1]>>

MessageBodies ==
    { <<>>, Blank, Xs(1), Xs(MaxMessageLength), Xs(MaxMessageLength + 1),
      Blank \o Xs(MaxMessageLength) \o Blank }

\* the base request: "x" for u2, about no trip
BaseSend == [recipient_id |-> C2, message |-> Xs(1), trip_id |-> <<>>]

SendBodies ==
    {EmptyData, BaseSend}
    \cup {Without(BaseSend, f) : f \in DOMAIN BaseSend}
    \cup {With(BaseSend, "recipient_id", v) :
              v \in {A1, A1Upper, C2Upper, NobodyId, NotAnId}}
    \cup {With(BaseSend, "message", v) : v \in MessageBodies}
    \cup {With(BaseSend, "trip_id", v) : v \in {NobodyId, NotAnId}}

SendRequests ==
    [token : Tokens, data : {BaseSend}, insert_ok : {TRUE}]
    \cup [token : {AccessToken("u1")}, data : SendBodies, insert_ok : {TRUE}]
    \cup [token : {AccessToken("u1")}, data : {BaseSend}, insert_ok : {FALSE}]
    \cup [token : {AccessToken("u2")},
          data : {With(BaseSend, "recipient_id", v) : v \in {A1, A1Upper}},
          insert_ok : {TRUE}]
    \cup [token : OwnerTokens, data : {With(BaseSend, "recipient_id", A3)},
          insert_ok : {TRUE}]

ConversationRequests ==
    [token : {NoToken} \cup OwnerTokens, user_id : {A1, C2}]
    \cup [token : {AccessToken("u1")}, user_id : {C2Upper, NobodyId, NotAnId}]
    \cup [token : OwnerTokens, user_id : {A3}]

\* conversation ids sent to POST /mark-read
ConversationIds ==
    { generate_conversation_id(A1, C2), generate_conversation_id(A1, C2Upper),
      generate_conversation_id(A1, A1Upper) }

MarkReadRequests ==
    [token : {NoToken, AccessToken("u1")}, data : {EmptyData}]
    \cup [token : OwnerTokens,
          data : {("conversation_id" :> c) : c \in ConversationIds}]

SendMessage == \E r \in SendRequests : send_message(r.token, r.data, r.insert_ok)

GetConversation == \E r \in ConversationRequests : get_conversation(r.token, r.user_id)

GetConversations ==
    \E token \in {NoToken, AccessToken("u3")} \cup OwnerTokens : get_conversations(token)

MarkMessagesRead == \E r \in MarkReadRequests : mark_messages_read(r.token, r.data)

MsgNext ==
    \/ SendMessage /\ UNCHANGED <<trip_vars, auth_vars, race_vars>>
    \/ GetConversation /\ UNCHANGED <<trip_vars, auth_vars, race_vars>>
    \/ GetConversations /\ UNCHANGED <<trip_vars, auth_vars, race_vars>>
    \/ MarkMessagesRead /\ UNCHANGED <<trip_vars, auth_vars, race_vars>>

MsgSpec == Init /\ [][MsgNext]_vars

\* -------------------------------------- authentication specification
\* emails the clients send: a@c.us, the same address as " A@C.US ", s@c.us,
\* u@c.us (never registered) and a@c (no top-level domain)
E1 == <<"a", "@", "c", ".", "u", "s">>
E1Spelled == <<" ", "A", "@", "C", ".", "U", "S", " ">>
E2 == <<"s", "@", "c", ".", "u", "s">>
GhostEmail == <<"u", "@", "c", ".", "u", "s">>
BadEmail == <<"a", "@", "c">>

\* passwords: Passw0rd, Passw0rd2, Wr0ngPass, password, Pw0
GoodPassword == <<"P", "a", "s", "s", "w", "0", "r", "d">>
NewPassword == <<"P", "a", "s", "s", "w", "0", "r", "d", "2">>
WrongPassword == <<"W", "r", "0", "n", "g", "P", "a", "s", "s">>
WeakPassword == <<"p", "a", "s", "s", "w", "o", "r", "d">>
ShortPassword == <<"P", "w", "0">>

\* no Authorization header
NoBearer == [hdr |-> FALSE, sig |-> FALSE, type |-> "", email |-> <<>>, user_id |-> 0]

\* a token handed out earlier, presented after its exp has passed or with a
\* signature that does not verify
Unverifiable(token) == [token EXCEPT !.sig = FALSE]

\* the tokens a client can put in a URL, and in an Authorization header
UrlTokens == minted \cup {Unverifiable(t) : t \in minted}

BearerTokens == {NoBearer} \cup UrlTokens

BaseRegister == [email |-> E1, password |-> GoodPassword]

\* the mail server delivers to a@c.us and fails for s@c.us
RegisterRequests ==
    [data : {EmptyData, BaseRegister, Without(BaseRegister, "password")}
            \cup {With(BaseRegister, "email", v) : v \in {E1Spelled, BadEmail, <<>>}}
            \cup {With(BaseRegister, "password", v) : v \in {WeakPassword, ShortPassword}},
     mail_ok : {TRUE}]
    \cup [data : {With(BaseRegister, "email", E2)}, mail_ok : {FALSE}]

LoginBodies ==
    {EmptyData, BaseRegister, Without(BaseRegister, "password"),
     With(BaseRegister, "remember_me", TRUE)}
    \cup {With(BaseRegister, "email", v) : v \in {E1Spelled, E2, GhostEmail}}
    \cup {With(BaseRegister, "password", v) : v \in {WrongPassword, NewPassword}}

ForgotRequests ==
    [data : {EmptyData, [email |-> E1], [email |-> GhostEmail]}, mail_ok : {TRUE}]
    \cup [data : {[email |-> E1]}, mail_ok : {FALSE}]

ResetBodies == {EmptyData, [password |-> NewPassword], [password |-> WeakPassword]}

Register == \E r \in RegisterRequests : register(r.data, r.mail_ok)

Login == \E data \in LoginBodies : login(data)

VerifyToken == \E token \in BearerTokens : verify_token(token)

RefreshToken == \E token \in BearerTokens : refresh_token(token)

VerifyEmail == \E token \in UrlTokens : verify_email(token)

ForgotPassword == \E r \in ForgotRequests : forgot_password(r.data, r.mail_ok)

\* every token meets the base request, the signed tokens every body
ResetRequests ==
    [token : UrlTokens, data : {[password |-> NewPassword]}]
    \cup [token : minted, data : ResetBodies]

ResetPassword == \E r \in ResetRequests : reset_password(r.token, r.data)

GetProfile == \E token \in BearerTokens : get_profile(token)

BaseChange == [current_password |-> GoodPassword, new_password |-> NewPassword]

ChangeBodies ==
    { EmptyData,
      BaseChange,
      [current_password |-> GoodPassword],
      [current_password |-> WrongPassword, new_password |-> NewPassword],
      [current_password |-> GoodPassword, new_password |-> WeakPassword] }

\* every bearer token meets the base request, the signed tokens every body
ChangeRequests ==
    [token : BearerTokens, data : {BaseChange}]
    \cup [token : minted, data : ChangeBodies]

ChangePassword == \E r \in ChangeRequests : change_password(r.token, r.data)

AuthNext ==
    \/ Register /\ UNCHANGED <<trip_vars, msg_vars, race_vars>>
    \/ Login /\ UNCHANGED <<trip_vars, msg_vars, race_vars>>
    \/ VerifyToken /\ UNCHANGED <<trip_vars, msg_vars, race_vars>>
    \/ RefreshToken /\ UNCHANGED <<trip_vars, msg_vars, race_vars>>
    \/ VerifyEmail /\ UNCHANGED <<trip_vars, msg_vars, race_vars>>
    \/ ForgotPassword /\ UNCHANGED <<trip_vars, msg_vars, race_vars>>
    \/ ResetPassword /\ UNCHANGED <<trip_vars, msg_vars, race_vars>>
    \/ GetProfile /\ UNCHANGED <<trip_vars, msg_vars, race_vars>>
    \/ ChangePassword /\ UNCHANGED <<trip_vars, msg_vars, race_vars>>

AuthSpec == Init /\ [][AuthNext]_vars

\* ------------------------------ conversations, one step per store access
\* get_conversation as the server runs it beside send_message: the checks with
\* the find are one step, which leaves the request with the documents it
\* found; update_many and the response are another.
RaceSendRequests ==
    [token : {NoToken} \cup OwnerTokens,
     data : {BaseSend, With(BaseSend, "recipient_id", A1)},
     insert_ok : {TRUE}]

RaceSend == \E r \in RaceSendRequests : send_message(r.token, r.data, r.insert_ok)

RaceConversationRequests == [token : {NoToken} \cup OwnerTokens, user_id : {A1, C2}]

ConvFetch ==
    \E r \in RaceConversationRequests :
        LET auth == token_required(r.token)
            sender_id == UserOid(auth.user)
            reply(code, caller) ==
                /\ msg_resp' = MsgReply("get_conversation", code, r.token, caller,
                                        r.user_id, <<>>, <<>>, 0)
                /\ UNCHANGED <<messages, fetched>>
        IN  IF ~auth.ok THEN reply(401, <<>>)
            ELSE IF ObjectId(r.user_id) = InvalidId THEN reply(400, sender_id)
            ELSE IF ~UserExists(ObjectId(r.user_id)) THEN reply(404, sender_id)
            ELSE /\ Len(fetched) < MaxPending
                 /\ fetched' = Append(fetched, [token |-> r.token, user_id |-> r.user_id,
                                                found |-> messages])
                 /\ UNCHANGED msg_vars

ConvMark ==
    \E i \in 1..Len(fetched) :
        LET request == fetched[i]
            sender_id == UserOid(token_required(request.token).user)
            conversation_id == generate_conversation_id(sender_id, request.user_id)
        IN  /\ fetched' = [j \in 1..(Len(fetched) - 1) |->
                              IF j < i THEN fetched[j] ELSE fetched[j + 1]]
            /\ messages' = UpdateMany(messages, Unread(messages, conversation_id, sender_id))
            /\ msg_resp' = MsgReply("get_conversation", 200, request.token, sender_id,
                                    request.user_id, conversation_id,
                                    MessageList(request.found, conversation_id, sender_id),
                                    0)

ConvRaceNext ==
    \/ RaceSend /\ UNCHANGED <<trip_vars, auth_vars, race_vars>>
    \/ ConvFetch /\ UNCHANGED <<trip_vars, auth_vars, pending, sessions>>
    \/ ConvMark /\ UNCHANGED <<trip_vars, auth_vars, pending, sessions>>

ConvRaceSpec == Init /\ [][ConvRaceNext]_vars

\* ------------------------------ trip updates, one step per store access
\* update_trip as the server runs it beside another update_trip: the checks
\* with Trip.query.get are one step, which leaves the request with the row it
\* loaded; the loop over the fields and the commit are another.
RaceBodies ==
    { ("rate_per_kg" :> 2),
      ("rate_per_kg" :> 1),
      ("rate_per_kg" :> 2) @@ ("departure_time" :> [h |-> <<2, 5>>, m |-> <<0, 0>>]) }

RaceUpdates ==
    [token : {AccessToken("u1")}, data : RaceBodies, commit_ok : {TRUE}]
    \cup [token : {AccessToken("u2")}, data : {("rate_per_kg" :> 2)}, commit_ok : {TRUE}]
    \cup [token : {AccessToken("u1")}, data : {("rate_per_kg" :> 2)}, commit_ok : {FALSE}]

CreateBaseTrip == add_trip(AccessToken("u1"), BaseTrip, TRUE)

UpdateLoad ==
    \E r \in RaceUpdates, trip_id \in TripIds :
        IF update_trip_error(r.token, trip_id, r.data) # 0
        THEN /\ resp' = Reply("update_trip", update_trip_error(r.token, trip_id, r.data),
                              r.token, token_required(r.token).user.id, trip_id, r.data,
                              <<>>)
             /\ UNCHANGED <<trips, next_id, today, nops, sessions>>
        ELSE /\ Len(sessions) < MaxPending
             /\ sessions' = Append(sessions, [token |-> r.token, trip_id |-> trip_id,
                                               data |-> r.data, commit_ok |-> r.commit_ok,
                                               loaded |-> trips[trip_id]])
             /\ UNCHANGED trip_vars

UpdateCommit ==
    \E i \in 1..Len(sessions) :
        LET session == sessions[i]
            me == token_required(session.token).user.id
            applied == ApplyFields(session.loaded, session.data, 1)
            answer(code, body) ==
                resp' = Reply("update_trip", code, session.token, me, session.trip_id,
                              session.data, body)
        IN  /\ sessions' = [j \in 1..(Len(sessions) - 1) |->
                               IF j < i THEN sessions[j] ELSE sessions[j + 1]]
            /\ UNCHANGED <<next_id, today, nops>>
            /\ IF applied.outcome = "bad_time"
               THEN /\ answer(400, <<>>)
                    /\ trips' = Rollback(trips, session.trip_id, applied.row)
               ELSE IF applied.outcome = "unstorable" \/ ~session.commit_ok
               THEN /\ answer(500, <<>>)
                    /\ trips' = Rollback(trips, session.trip_id, applied.row)
               ELSE /\ trips' = Flush(trips, session.trip_id, session.loaded, applied.row)
                    /\ answer(200, <<[id |-> session.trip_id] @@ trips'[session.trip_id]>>)

TripRaceNext ==
    \/ CreateBaseTrip /\ UNCHANGED <<msg_vars, auth_vars, pending, sessions, fetched>>
    \/ UpdateLoad /\ UNCHANGED <<msg_vars, auth_vars, pending, fetched>>
    \/ UpdateCommit /\ UNCHANGED <<msg_vars, auth_vars, pending, fetched>>

TripRaceSpec == Init /\ [][TripRaceNext]_vars

\* --------------------------- registration, one step per store access
\* register as the server runs it beside another register: the checks and
\* find_by_email are one step, create_user and the rest another
RegisterCheck ==
    \E r \in RegisterRequests :
        IF register_error(r.data).code # 0
        THEN /\ auth_resp' = AuthReply("register", register_error(r.data).code,
                                       register_error(r.data).error, NoToken, r.data, {})
             /\ UNCHANGED <<users, minted, clock, pending>>
        ELSE /\ Len(pending) < MaxPending
             /\ pending' = Append(pending, r)
             /\ UNCHANGED auth_vars

RegisterCreate ==
    \E i \in 1..Len(pending) :
        /\ register_create(pending[i].data, pending[i].mail_ok)
        /\ pending' = [j \in 1..(Len(pending) - 1) |->
                          IF j < i THEN pending[j] ELSE pending[j + 1]]

RegisterRaceNext ==
    \/ RegisterCheck /\ UNCHANGED <<trip_vars, msg_vars, sessions, fetched>>
    \/ RegisterCreate /\ UNCHANGED <<trip_vars, msg_vars, sessions, fetched>>

RegisterRaceSpec == Init /\ [][RegisterRaceNext]_vars

\* --------------------------------------------- profile specification
\* profile values: " Al ", "Al", a phone of nine digits, c.us, a bio of 501
\* characters
Al == <<"A", "l">>
AlPadded == <<" ", "A", "l", " ">>
Digits(n) == [i \in 1..n |-> "5"]
Site == <<"c", ".", "u", "s">>

ProfileBodies ==
    { EmptyData,
      [firstname |-> AlPadded],
      [phone |-> Digits(MinPhoneLength - 1)],
      [website |-> Site],
      [firstname |-> Al, bio |-> Xs(MaxBioLength + 1)],
      [email |-> E2, password |-> hashpw(NewPassword), is_verified |-> FALSE, id |-> 2],
      [firstname |-> Al, email |-> E2, is_verified |-> FALSE] }

AuthProfileBodies ==
    { EmptyData,
      [first_name |-> AlPadded],
      [firstname |-> Al],
      [first_name |-> Al, email |-> E2, is_verified |-> FALSE] }

\* every bearer token meets one body, the signed tokens every body
ProfileRequests ==
    [token : BearerTokens, data : {[firstname |-> AlPadded]}]
    \cup [token : minted, data : ProfileBodies]

AuthProfileRequests ==
    [token : BearerTokens, data : {[first_name |-> AlPadded]}]
    \cup [token : minted, data : AuthProfileBodies]

UpdateProfile == \E r \in ProfileRequests : update_profile(r.token, r.data)

AuthUpdateProfile == \E r \in AuthProfileRequests : auth_update_profile(r.token, r.data)

\* accounts are registered, verified and logged in, and edit their profiles
ProfileNext ==
    \/ Register /\ UNCHANGED <<trip_vars, msg_vars, race_vars>>
    \/ VerifyEmail /\ UNCHANGED <<trip_vars, msg_vars, race_vars>>
    \/ Login /\ UNCHANGED <<trip_vars, msg_vars, race_vars>>
    \/ UpdateProfile /\ UNCHANGED <<trip_vars, msg_vars, race_vars>>
    \/ AuthUpdateProfile /\ UNCHANGED <<trip_vars, msg_vars, race_vars>>

ProfileSpec == Init /\ [][ProfileNext]_vars

\* ================================================================ claims
Statuses == {"active", "completed", "cancelled", "deleted"}

\* the ids of the trips in the last response
BodyIds == {resp.body[i].id : i \in 1..Len(resp.body)}

\* C1: after a successful Delete by its owner the trip record still exists
\* with status deleted, and no operation ever removes a trip record: every id
\* handed out is still in the table.
C1_DeleteIsSoft ==
    /\ \A id \in 1..next_id : id \in DOMAIN trips
    /\ (resp.op = "delete_trip" /\ resp.code = 200)
          => trips[resp.trip_id].status = "deleted"

\* C2: MyTrips without a status filter never returns a deleted trip, and
\* MyTrips with status=deleted returns exactly the owner's deleted trips.
C2_MyTripsHidesDeleted ==
    (resp.op = "get_my_trips" /\ resp.code = 200) =>
        /\ ~Has(resp.data, "status")
              => \A i \in 1..Len(resp.body) : resp.body[i].status # "deleted"
        /\ (Has(resp.data, "status") /\ resp.data["status"] = "deleted")
              => BodyIds = {id \in DOMAIN trips :
                               /\ trips[id].user_id = resp.caller
                               /\ trips[id].status = "deleted"}

\* C3: every trip returned by Search or by PublicTripsByUser has status
\* active, whatever filters are supplied.
C3_ListingsOnlyActive ==
    resp.op \in {"search_trips", "get_user_trips"}
        => \A i \in 1..Len(resp.body) : resp.body[i].status = "active"

\* a search ran while a trip of another user that matches its filters is
\* completed, cancelled or deleted
C3_Witness ==
    /\ resp.op = "search_trips"
    /\ \E id \in DOMAIN trips :
          /\ trips[id].status \in Statuses \ {"active"}
          /\ trips[id].user_id # resp.caller
          /\ FiltersMatch(trips[id], resp.data)

\* the bearer token of the last request is a valid access token of an account
ValidAccessToken ==
    /\ resp.token.hdr /\ resp.token.sig /\ resp.token.type = "access"
    /\ \E u \in Accounts : u.id = resp.token.email

\* C4: Search never returns a trip owned by the viewer who sent a valid access
\* token, whatever the filters.
C4_SearchExcludesOwn ==
    (resp.op = "search_trips" /\ ValidAccessToken)
        => \A i \in 1..Len(resp.body) : resp.body[i].user_id # resp.token.email

\* a viewer with a valid access token searched while owning an active trip
\* that matches the filters, and was shown another user's trip
C4_Witness ==
    /\ resp.op = "search_trips" /\ ValidAccessToken
    /\ resp.body # <<>>
    /\ \E id \in DOMAIN trips :
          /\ trips[id].user_id = resp.token.email
          /\ trips[id].status = "active"
          /\ FiltersMatch(trips[id], resp.data)

\* C5: Update and Delete by an authenticated caller who is not the owner
\* answer 403 and leave the trip table as it was; a trip changes or goes away
\* only in a step whose caller is its owner.
C5_OnlyOwnerMutates ==
    [][ /\ ( /\ resp'.op \in {"update_trip", "delete_trip"}
             /\ resp'.caller # ""
             /\ resp'.trip_id \in DOMAIN trips
             /\ trips[resp'.trip_id].user_id # resp'.caller )
           => (resp'.code = 403 /\ trips' = trips)
        /\ \A id \in DOMAIN trips :
              (id \notin DOMAIN trips' \/ trips'[id] # trips[id])
                 => ( /\ resp'.op \in {"update_trip", "delete_trip"}
                      /\ resp'.trip_id = id
                      /\ resp'.caller = trips[id].user_id )
      ]_vars

\* an authenticated user's update of another user's trip was answered 403
C5_Witness ==
    /\ resp.op = "update_trip" /\ resp.code = 403
    /\ resp.trip_id \in DOMAIN trips
    /\ resp.caller # ""
    /\ trips[resp.trip_id].user_id # resp.caller

\* C6: every stored trip has rate per kilogram > 0 and available cargo
\* space > 0.
C6_RateAndSpacePositive ==
    \A id \in DOMAIN trips :
        trips[id].rate_per_kg > 0 /\ trips[id].available_cargo_space > 0

\* C7: every stored trip's status is one of active, completed, cancelled,
\* deleted.
C7_StatusInEnum == \A id \in DOMAIN trips : trips[id].status \in Statuses

\* C8: a Create whose origin equals its destination, compared without case,
\* is rejected and persists nothing: no Create answers 201 for such a body.
C8_CreateDistinctEnds ==
    (resp.op = "add_trip" /\ resp.code = 201)
        => Lower(resp.body[1].country_from) # Lower(resp.body[1].country_to)

\* the calendar date an eight-digit day-month-year token names
TokenDate(tok) ==
    [year |-> 1000 * tok[5] + 100 * tok[6] + 10 * tok[7] + tok[8],
     month |-> 10 * tok[3] + tok[4],
     day |-> 10 * tok[1] + tok[2]]

\* tok is eight digits that name a real calendar date
IsCalendarToken(tok) ==
    /\ Len(tok) = 8
    /\ \A i \in 1..8 : IsDigit(tok[i])
    /\ DateOk(TokenDate(tok).year, TokenDate(tok).month, TokenDate(tok).day)

\* a Create body C9 says must be rejected
C9_MustReject(data) ==
    \/ Has(data, "available_cargo_space") /\ data["available_cargo_space"] <= 0
    \/ Has(data, "rate_per_kg") /\ data["rate_per_kg"] <= 0
    \/ Has(data, "date") /\ ~IsCalendarToken(data["date"])
    \/ Has(data, "date") /\ IsCalendarToken(data["date"])
          /\ DateBefore(TokenDate(data["date"]), today)

\* C9: an authenticated Create whose space or rate is 0 or negative, whose
\* date is not an eight-digit token naming a real calendar date, or whose
\* date lies before today, is answered with a validation error and leaves
\* the stored trips unchanged; the base trip dated today is accepted.
C9_CreateValidation ==
    [][ (resp'.op = "add_trip" /\ resp'.caller # "") =>
           /\ C9_MustReject(resp'.data) => (resp'.code = 400 /\ trips' = trips)
           /\ resp'.data = With(BaseTrip, "date", <<0, 5, 1, 1, 2, 0, 2, 6>>)
                 => resp'.code \in {201, 500}
      ]_vars

\* C10: GetById answers 404 for a trip that does not exist and for a trip
\* that is not active unless the viewer is its owner.
C10_GetByIdHidesInactive ==
    resp.op = "get_trip" =>
        /\ resp.trip_id \notin DOMAIN trips => resp.code = 404
        /\ ( /\ resp.trip_id \in DOMAIN trips
             /\ trips[resp.trip_id].status # "active"
             /\ resp.caller # trips[resp.trip_id].user_id )
           => resp.code = 404

\* C11: a successful Create persists the trip with status active and records
\* an initial cargo space equal to the submitted available cargo space, and
\* every stored trip keeps carrying that record.
C11_InitialSpaceRecorded ==
    /\ \A id \in DOMAIN trips : Has(trips[id], "original_cargo_space")
    /\ (resp.op = "add_trip" /\ resp.code = 201) =>
          /\ trips[resp.trip_id].status = "active"
          /\ trips[resp.trip_id].original_cargo_space
                = resp.data["available_cargo_space"]

\* ---------------------------------------------------- messaging claims
\* the two users a stored message runs between
Participants(msg) == {msg.sender_id, msg.recipient_id}

\* C12: conversationId(A,B) = conversationId(B,A) for all id texts, and all
\* stored messages exchanged between the same two users, in either direction,
\* carry one and the same conversation id.
C12_OneConversationId ==
    /\ \A a, b \in {A1, A1Upper, C2, C2Upper, NobodyId} :
          generate_conversation_id(a, b) = generate_conversation_id(b, a)
    /\ \A i, j \in 1..Len(messages) :
          Participants(messages[i]) = Participants(messages[j])
             => messages[i].conversation_id = messages[j].conversation_id

\* a Send request C13 says must fail: the recipient does not exist, is the
\* sender, the trimmed body is empty or longer than the maximum, or a trip id
\* is supplied that resolves to no trip
C13_MustFail(caller, data) ==
    \/ ObjectId(data["recipient_id"]) = InvalidId
    \/ ~UserExists(ObjectId(data["recipient_id"]))
    \/ ObjectId(data["recipient_id"]) = caller
    \/ TextLen(Strip(data["message"])) = 0
    \/ TextLen(Strip(data["message"])) > MaxMessageLength
    \/ (data["trip_id"] # <<>> /\ ObjectId(data["trip_id"]) \notin TripDocuments)

\* C13: a Send that must fail is not answered 201 and leaves the stored
\* messages unchanged; a Send of exactly 1000 characters to an existing other
\* user, about no trip, stores exactly one new message unless the store
\* itself fails.
C13_SendValidation ==
    [][ ( /\ msg_resp'.op = "send_message"
          /\ msg_resp'.caller # <<>>
          /\ DOMAIN msg_resp'.data = {"recipient_id", "message", "trip_id"} )
        => /\ C13_MustFail(msg_resp'.caller, msg_resp'.data)
                 => (msg_resp'.code # 201 /\ messages' = messages)
           /\ ( /\ ~C13_MustFail(msg_resp'.caller, msg_resp'.data)
                /\ msg_resp'.data["message"] = Xs(MaxMessageLength) )
                 => /\ msg_resp'.code \in {201, 500}
                    /\ msg_resp'.code = 201 => Len(messages') = Len(messages) + 1
                    /\ msg_resp'.code = 500 => messages' = messages
      ]_vars

\* C14: a message enters the store only through Send and with read = false;
\* afterwards it is never removed, its sender, recipient, body, trip id and
\* conversation id never change, and its read flag never goes back to false.
C14_MessagesImmutable ==
    [][ /\ Len(messages') >= Len(messages)
        /\ \A i \in 1..Len(messages) :
              /\ messages'[i] = [messages[i] EXCEPT !.read = messages'[i].read]
              /\ messages[i].read => messages'[i].read
        /\ \A i \in (Len(messages) + 1)..Len(messages') :
              /\ ~messages'[i].read
              /\ msg_resp'.op = "send_message" /\ msg_resp'.code = 201
      ]_vars

\* a message was marked read while another message is in the store
C14_Witness ==
    /\ msg_resp.op \in {"mark_messages_read", "get_conversation"}
    /\ Len(messages) >= 2
    /\ \E i \in 1..Len(messages) : messages[i].read /\ messages[i].message # <<>>

\* C15: MarkRead(viewer, conversationId) sets read on every unread message of
\* that conversation addressed to the viewer, returns the number of messages
\* it changed, and leaves unchanged every message the viewer sent, every
\* message addressed to another user and every message of another
\* conversation.
C15_MarkReadFrame ==
    [][ (msg_resp'.op = "mark_messages_read" /\ msg_resp'.code = 200) =>
          LET viewer == msg_resp'.caller
              conversation_id == msg_resp'.data["conversation_id"]
          IN  /\ Len(messages') = Len(messages)
              /\ \A i \in 1..Len(messages) :
                    /\ ( /\ messages[i].conversation_id = conversation_id
                         /\ messages[i].recipient_id = viewer )
                          => messages'[i] = [messages[i] EXCEPT !.read = TRUE]
                    /\ messages[i].sender_id = viewer => messages'[i] = messages[i]
                    /\ messages[i].recipient_id # viewer => messages'[i] = messages[i]
                    /\ messages[i].conversation_id # conversation_id
                          => messages'[i] = messages[i]
              /\ msg_resp'.count
                    = Cardinality({i \in 1..Len(messages) : messages'[i] # messages[i]})
      ]_vars

\* C16: when GetConversation(viewer, other) has completed, every message the
\* other user sent to the viewer is read, the messages the viewer sent are as
\* they were, and the viewer's conversation list shows unread_count 0 for the
\* conversation with that user.
C16_ConversationReadAfterGet ==
    [][ (msg_resp'.op = "get_conversation" /\ msg_resp'.code = 200) =>
          LET viewer == msg_resp'.caller
              other == ObjectId(msg_resp'.data)
              listed == ConversationList(messages', viewer)
          IN  /\ \A i \in 1..Len(messages') :
                    (messages'[i].sender_id = other /\ messages'[i].recipient_id = viewer)
                       => messages'[i].read
              /\ \A i \in 1..Len(messages) :
                    messages[i].sender_id = viewer => messages'[i] = messages[i]
              /\ \A k \in 1..Len(listed) :
                    listed[k].other_user = other => listed[k].unread_count = 0
      ]_vars

\* ----------------------------------------------- authentication claims
\* the email of a request body, "" when it has none
BodyEmail(data) == IF Has(data, "email") THEN data["email"] ELSE <<>>

\* the password of a request body, "" when it has none
BodyPassword(data) == IF Has(data, "password") THEN data["password"] ELSE <<>>

\* the positions of the users registered under the lower-cased, trimmed email
RegisteredAs(email) ==
    {i \in 1..Len(users) : users[i].email = Lower(StripText(email))}

\* C17: every successful Register stores the input email lower-cased and
\* trimmed; a Register whose email, lower-cased and trimmed, is already
\* registered creates no user and, when it is otherwise valid, is answered
\* 409.
C17_RegisterNormalizesEmail ==
    [][ auth_resp'.op = "register" =>
          LET email == BodyEmail(auth_resp'.data)
              password == BodyPassword(auth_resp'.data)
          IN  /\ auth_resp'.code = 201 =>
                    /\ RegisteredAs(email) = {}
                    /\ Len(users') = Len(users) + 1
                    /\ users'[Len(users')].email = Lower(StripText(email))
                    /\ SubSeq(users', 1, Len(users)) = users
              /\ RegisteredAs(email) # {} =>
                    /\ users' = users
                    /\ auth_resp'.code \in {400, 409}
                    /\ validate_password(password) => auth_resp'.code = 409
      ]_vars

\* a Register was answered 409 for an email spelled differently from the
\* stored one
C17_Witness ==
    /\ auth_resp.op = "register" /\ auth_resp.code = 409
    /\ BodyEmail(auth_resp.data) # Lower(StripText(BodyEmail(auth_resp.data)))
    /\ RegisteredAs(BodyEmail(auth_resp.data)) # {}

\* C18: Login issues tokens only for a registered email, the matching
\* password and a verified account; an unknown email and a wrong password get
\* the same 401 InvalidCredentials answer, an unverified account with the
\* right password gets EmailNotVerified, and a failing Login issues no token
\* and changes nothing.
C18_LoginIssuesOnlyWhenVerified ==
    [][ auth_resp'.op = "login" =>
          LET email == BodyEmail(auth_resp'.data)
              password == BodyPassword(auth_resp'.data)
              known == RegisteredAs(email) # {}
              user == users[CHOOSE i \in RegisteredAs(email) : TRUE]
              matches == known /\ user.password = [bcrypt |-> password]
          IN  /\ auth_resp'.issued # {} =>
                    /\ auth_resp'.code = 200
                    /\ matches /\ user.is_verified
                    /\ \A t \in auth_resp'.issued :
                          t.user_id = user.id /\ t.type \in {"access", "remember"}
              /\ (email # <<>> /\ password # <<>> /\ ~matches) =>
                    (auth_resp'.code = 401 /\ auth_resp'.error = InvalidCredentials)
              /\ (matches /\ ~user.is_verified) =>
                    (auth_resp'.code = 401 /\ auth_resp'.error = EmailNotVerified)
              /\ (matches /\ user.is_verified) => auth_resp'.issued # {}
              /\ auth_resp'.code # 200 =>
                    (auth_resp'.issued = {} /\ users' = users /\ minted' = minted)
      ]_vars

\* a Login was answered with a session token
C18_Witness ==
    /\ auth_resp.op = "login" /\ auth_resp.code = 200
    /\ \E t \in auth_resp.issued : t.type = "access"
    /\ \E i \in 1..Len(users) : ~users[i].is_verified

\* C19: every consumer checks the token's type: a handler behind
\* token_required, optional_token and VerifyToken accept only access,
\* VerifyEmail only verification, ResetPassword only password_reset.
C19_TypeCheckedEverywhere ==
    /\ (auth_resp.op = "get_profile" /\ auth_resp.code = 200)
          => auth_resp.token.type = "access"
    /\ \A t \in BearerTokens :
          optional_token_on(t, FindByEmail(t.email)) # NoUser => t.type = "access"
    /\ (auth_resp.op = "verify_token" /\ auth_resp.code = 200)
          => auth_resp.token.type = "access"
    /\ (auth_resp.op = "verify_email" /\ auth_resp.code = 200)
          => auth_resp.token.type = "verification"
    /\ (auth_resp.op = "reset_password" /\ auth_resp.code = 200)
          => auth_resp.token.type = "password_reset"

\* C20: RefreshToken mints a new access token only for a signed, unexpired
\* token of type remember whose user exists; an access, verification or
\* password_reset token never yields one.
C20_RefreshOnlyWithRemember ==
    [][ auth_resp'.op = "refresh_token" =>
          /\ (auth_resp'.issued # {} \/ minted' # minted \/ auth_resp'.code = 200) =>
                /\ auth_resp'.token.hdr /\ auth_resp'.token.sig
                /\ auth_resp'.token.type = "remember"
                /\ auth_resp'.token.user_id \in 1..Len(users)
                /\ \A t \in auth_resp'.issued :
                      t.type = "access" /\ t.user_id = auth_resp'.token.user_id
          /\ auth_resp'.token.type \in {"access", "verification", "password_reset"} =>
                (auth_resp'.code = 401 /\ auth_resp'.issued = {} /\ minted' = minted)
      ]_vars

\* a remember token was exchanged for a new access token
C20_Witness ==
    /\ auth_resp.op = "refresh_token" /\ auth_resp.code = 200
    /\ auth_resp.token.type = "remember"
    /\ auth_resp.issued # {}

\* C21: VerifyEmail with a valid verification token of a registered account
\* sets the account's verified flag; applied to an account that is already
\* verified it reports success and leaves the flag set; and no step of any
\* handler clears a verified flag.
C21_VerifyEmailIdempotent ==
    [][ /\ \A i \in 1..Len(users) :
              users[i].is_verified => (i <= Len(users') /\ users'[i].is_verified)
        /\ (/\ auth_resp'.op = "verify_email"
            /\ Decodes(auth_resp'.token)
            /\ auth_resp'.token.type = "verification"
            /\ RegisteredAs(auth_resp'.token.email) # {}) =>
              LET i == CHOOSE j \in RegisteredAs(auth_resp'.token.email) : TRUE
              IN  /\ users'[i].is_verified
                  /\ auth_resp'.code = 200
      ]_vars

\* C22: for every non-empty email ForgotPassword gives the answer it gives
\* for an email nobody registered (200 and no error), whether or not the
\* email is registered and whatever the mail server does.
C22_ForgotPasswordConstantAnswer ==
    (/\ auth_resp.op = "forgot_password"
     /\ StripText(BodyEmail(auth_resp.data)) # <<>>) =>
        (auth_resp.code = 200 /\ auth_resp.error = "")

\* the new password of a ResetPassword or ChangePassword request body
NewPasswordOf(r) ==
    IF r.op = "reset_password" THEN r.data["password"] ELSE r.data["new_password"]

\* C23: a successful ResetPassword or ChangePassword changes, of all user
\* records, only the password hash (and the update timestamp) of one user;
\* every token handed out before is answered by token_required and by
\* RefreshToken after the change as it was before it; the stored hash then
\* matches the new password and no longer matches the old one.
C23_PasswordChangeKeepsTokens ==
    [][ (auth_resp'.op \in {"reset_password", "change_password"} /\ auth_resp'.code = 200) =>
          \E i \in 1..Len(users) :
              /\ Len(users') = Len(users)
              /\ \A j \in 1..Len(users) : j # i => users'[j] = users[j]
              /\ DOMAIN users'[i] = DOMAIN users[i]
              /\ \A k \in DOMAIN users[i] \ {"password", "updated_at"} :
                    users'[i][k] = users[i][k]
              /\ minted' = minted
              /\ \A t \in minted \cup {Unverifiable(x) : x \in minted} :
                    /\ token_required_on(t, FindByEmail(t.email)).ok
                          = (token_required_on(t, FindByEmail(t.email)).ok)'
                    /\ RefreshError(t) = (RefreshError(t))'
              /\ checkpw(NewPasswordOf(auth_resp'), users'[i].password)
              /\ \A old \in {GoodPassword, NewPassword} :
                    (checkpw(old, users[i].password) /\ old # NewPasswordOf(auth_resp'))
                        => ~checkpw(old, users'[i].password)
      ]_vars

\* a password was changed while an access token and a remember token of the
\* same user were out, and the old password no longer matches
C23_Witness ==
    /\ auth_resp.op = "change_password" /\ auth_resp.code = 200
    /\ \E t \in minted : t.type = "access" /\ t.user_id = 1
    /\ \E t \in minted : t.type = "remember" /\ t.user_id = 1 /\ RefreshError(t) = ""
    /\ ~checkpw(GoodPassword, users[1].password)

\* the fields the profile whitelist names: name parts (as either handler
\* spells them), phone, bio, company and website
ProfileWhitelist ==
    {"firstname", "lastname", "first_name", "last_name", "phone", "bio", "company",
     "website"}

\* the position of the user a token's email resolves to, 0 when none
Principal(token) ==
    IF RegisteredAs(token.email) = {} THEN 0
    ELSE CHOOSE i \in RegisteredAs(token.email) : TRUE

\* C24: UpdateProfile changes, of all user records, only whitelisted fields
\* (and the update timestamp) of the principal's own record: email, password
\* hash, verified flag and every key outside the whitelist stay as they
\* were, no other record changes, and a payload with no whitelisted key is
\* answered 400 and changes nothing.
C24_UpdateProfileFrame ==
    [][ auth_resp'.op \in {"update_profile", "auth_update_profile"} =>
          LET me == Principal(auth_resp'.token)
          IN  /\ Len(users') = Len(users)
              /\ minted' = minted
              /\ \A i \in 1..Len(users) :
                    /\ i # me => users'[i] = users[i]
                    /\ DOMAIN users[i] \subseteq DOMAIN users'[i]
                    /\ DOMAIN users'[i] \subseteq DOMAIN users[i] \cup ProfileWhitelist
                    /\ \A k \in DOMAIN users[i] \ (ProfileWhitelist \cup {"updated_at"}) :
                          users'[i][k] = users[i][k]
              /\ DOMAIN auth_resp'.data \cap ProfileWhitelist = {} =>
                    (auth_resp'.code \in {400, 401} /\ users' = users)
      ]_vars

\* a profile update went through for a payload that also named the email and
\* the verified flag, while a second user was registered
C24_Witness ==
    /\ auth_resp.op = "update_profile" /\ auth_resp.code = 200
    /\ Has(auth_resp.data, "email") /\ Has(auth_resp.data, "is_verified")
    /\ Len(users) = 2
    /\ users[1].firstname = Al /\ users[1].email = E1 /\ users[1].is_verified

\* the number of the owner's trips whose status is in a set
OwnedWithStatus(owner, statuses) ==
    Cardinality({id \in DOMAIN trips :
                    trips[id].user_id = owner /\ trips[id].status \in statuses})

\* C25: the statistics returned to an owner count that owner's trips by
\* status: total leaves out trips with status deleted, active counts the
\* active ones and completed counts the ones whose status is completed.
C25_StatsByStatus ==
    (resp.op = "get_trip_stats" /\ resp.code = 200) =>
        LET stats == resp.body[1]
            others == {trips[id].status : id \in DOMAIN trips} \ {"deleted"}
        IN  /\ stats.total_trips = OwnedWithStatus(resp.caller, others)
            /\ stats.active_trips = OwnedWithStatus(resp.caller, {"active"})
            /\ stats.completed_trips = OwnedWithStatus(resp.caller, {"completed"})

\* C26: no two user records hold the same lower-case email, also when the
\* existence checks of two Register requests for one email both run before
\* either insert; of such requests one creates the user and the other is
\* rejected without creating anything.
C26_EmailUnique ==
    [][ /\ \A i, j \in 1..Len(users') :
              i # j => Lower(users'[i].email) # Lower(users'[j].email)
        /\ (Len(pending') < Len(pending) /\ auth_resp'.op = "register") =>
              LET email == BodyEmail(auth_resp'.data)
              IN  IF RegisteredAs(email) # {}
                  THEN users' = users /\ auth_resp'.code \in {409, 500}
                  ELSE /\ auth_resp'.code = 201
                       /\ Len(users') = Len(users) + 1
                       /\ users'[Len(users')].email = Lower(StripText(email))
      ]_vars

\* two Register requests for one email had both passed the existence check;
\* one was answered 201 and the other, here, is refused by the index
C26_Witness ==
    /\ auth_resp.op = "register" /\ auth_resp.code = 500
    /\ Len(users) = 1
    /\ RegisteredAs(BodyEmail(auth_resp.data)) = {1}
    /\ BodyEmail(auth_resp.data) # users[1].email

\* the columns update_trip assigns with setattr
PlainColumns ==
    {"country_from", "country_to", "rate_per_kg", "available_cargo_space", "status"}

\* C27: of two Updates of one trip in flight together the one that commits
\* last wins: when an Update commits and is answered 200, every column its
\* payload set holds the payload's value, and no column of any trip changes
\* to a value other than one that payload supplied.
C27_LastWriterWins ==
    [][ (Len(sessions') < Len(sessions) /\ resp'.op = "update_trip" /\ resp'.code = 200) =>
          /\ \A f \in DOMAIN resp'.data \cap PlainColumns :
                trips'[resp'.trip_id][f] = resp'.data[f]
          /\ \A id \in DOMAIN trips : \A f \in DOMAIN trips[id] :
                trips'[id][f] # trips[id][f] =>
                    (id = resp'.trip_id /\ f \in DOMAIN resp'.data
                     /\ (f \in PlainColumns => trips'[id][f] = resp'.data[f]))
      ]_vars

\* C28: every message a GetConversation call marks read is in the list the
\* same call returns, also when a Send is handled between the call's find and
\* its update_many.
C28_MarkedReadWasReturned ==
    [][ (/\ Len(fetched') < Len(fetched)
         /\ msg_resp'.op = "get_conversation" /\ msg_resp'.code = 200) =>
          \A i \in 1..Len(messages) :
              (messages'[i].read /\ ~messages[i].read) =>
                  \E k \in 1..Len(msg_resp'.body) : msg_resp'.body[k].id = i
      ]_vars

\* C29: an Update answered with an error leaves the stored trips as they were,
\* whatever the loop had assigned before the error.
C29_FailedUpdateKeepsTrip ==
    [][ (resp'.op = "update_trip" /\ resp'.code # 200) => trips' = trips ]_vars

\* an Update refused for its departure time after the loop had assigned
\* another rate, and the stored rate is still the old one
C29_Witness ==
    /\ resp.op = "update_trip"
    /\ resp.code = 400
    /\ Has(resp.data, "rate_per_kg")
    /\ Has(resp.data, "departure_time")
    /\ resp.trip_id \in DOMAIN trips
    /\ trips[resp.trip_id].rate_per_kg # resp.data["rate_per_kg"]

\* the sender and the recipient of a message, as a set
Parties(msg) == {msg.sender_id, msg.recipient_id}

\* the messages GetConversation returned are between the viewer and the user
\* the URL names, whoever else has sent or received messages
OnlyBetweenTheTwo ==
    (msg_resp.op = "get_conversation" /\ msg_resp.code = 200) =>
        \A k \in 1..Len(msg_resp.body) :
            Parties(msg_resp.body[k]) = {msg_resp.caller, ObjectId(msg_resp.data)}

\* every stored message between the viewer and the user the URL names is in
\* the list GetConversation returned
AllBetweenTheTwo ==
    (msg_resp.op = "get_conversation" /\ msg_resp.code = 200) =>
        \A i \in 1..Len(messages) :
            Parties(messages[i]) = {msg_resp.caller, ObjectId(msg_resp.data)} =>
                \E k \in 1..Len(msg_resp.body) : msg_resp.body[k].id = i

\* C30: GetConversation(viewer, other) returns only messages whose sender and
\* recipient are the viewer and the other user, and returns all of them.
C30_ConversationIsThePair == OnlyBetweenTheTwo /\ AllBetweenTheTwo

====
